---- MODULE Spec2Model ----
(***************************************************************************)
(* Model of the per-table incremental processor of guidewire-cda-delta-    *)
(* clone: Batch (src/guidewire/batch.py) driving one Delta table through   *)
(* BaseDeltaLog (src/guidewire/delta_log.py), over several runs, with the  *)
(* upstream CDA export appending schema epochs and timestamp partitions    *)
(* between runs.                                                           *)
(*                                                                         *)
(* Strings that the code parses, renders or compares (directory names,     *)
(* schemaHistory keys and values, commit metadata) are sequences of        *)
(* one-character strings, so that int(), str() and sorted() are modelled   *)
(* by what they do.                                                        *)
(***************************************************************************)
EXTENDS Integers, Sequences, FiniteSets, TLC

\* ------------------------------------------------------------------ bounds
\* The upstream clock runs from StartTime to MaxTime; every epoch timestamp
\* and partition name is a clock value, so the names cross from one digit
\* to two digits inside the range.
StartTime == 8
MaxTime == 11
\* Number of BatchProcessor runs on the table.
MaxRuns == 2
\* Length of the table_names list handed to a Processor.
MaxTables == 2
\* add_transaction is called on one handle until MaxCommits commits were
\* made, with a checkpoint interval of 1..MaxInterval.
MaxCommits == 3
MaxInterval == 2

\* --------------------------------------------------------- strings, int()
DigitChars == {"0", "1", "2", "3", "4", "5", "6", "7", "8", "9"}

DigitVal ==
  [c \in DigitChars |->
     CASE c = "0" -> 0 [] c = "1" -> 1 [] c = "2" -> 2 [] c = "3" -> 3
       [] c = "4" -> 4 [] c = "5" -> 5 [] c = "6" -> 6 [] c = "7" -> 7
       [] c = "8" -> 8 [] c = "9" -> 9]

DigitChar == [d \in 0..9 |-> CHOOSE c \in DigitChars : DigitVal[c] = d]

\* Code points of the characters that occur in names of the model.
Chars == DigitChars \cup {"-", "_", "t", "m", "p"}

Ord ==
  [c \in Chars |->
     CASE c = "-" -> 45
       [] c \in DigitChars -> 48 + DigitVal[c]
       [] c = "_" -> 95
       [] c = "m" -> 109
       [] c = "p" -> 112
       [] c = "t" -> 116]

\* Python's str < str: code point order, a proper prefix sorts first.
RECURSIVE StrLess(_, _)
StrLess(a, b) ==
  IF a = <<>> THEN b # <<>>
  ELSE IF b = <<>> THEN FALSE
  ELSE IF Ord[Head(a)] < Ord[Head(b)] THEN TRUE
  ELSE IF Ord[Head(a)] > Ord[Head(b)] THEN FALSE
  ELSE StrLess(Tail(a), Tail(b))

\* sorted(iterable of distinct str): ascending by StrLess.
RECURSIVE SortedStr(_)
SortedStr(S) ==
  IF S = {} THEN <<>>
  ELSE LET m == CHOOSE x \in S : \A y \in S \ {x} : StrLess(x, y)
       IN  <<m>> \o SortedStr(S \ {m})

\* int(s) succeeds: an optional sign followed by one or more digits.
\* (Names of the model never contain blanks or digit-group underscores.)
IsInt(s) ==
  LET body == IF s # <<>> /\ Head(s) = "-" THEN Tail(s) ELSE s
  IN  /\ body # <<>>
      /\ \A i \in 1..Len(body) : body[i] \in DigitChars

RECURSIVE ParseNat(_)
ParseNat(s) ==
  IF s = <<>> THEN 0
  ELSE ParseNat(SubSeq(s, 1, Len(s) - 1)) * 10 + DigitVal[s[Len(s)]]

\* int(s) for a string accepted by IsInt.
ParseInt(s) ==
  IF Head(s) = "-" THEN 0 - ParseNat(Tail(s)) ELSE ParseNat(s)

RECURSIVE StrNat(_)
StrNat(n) ==
  IF n < 10 THEN <<DigitChar[n]>>
  ELSE StrNat(n \div 10) \o <<DigitChar[n % 10]>>

\* str(n) for an integer n.
Str(n) == IF n < 0 THEN <<"-">> \o StrNat(0 - n) ELSE StrNat(n)

\* ------------------------------------------------------------------ state
VARIABLES
  clock,     \* upstream time: the next epoch timestamp or partition name
  manifest,  \* the table's manifest entry as the upstream publishes it
  src,       \* the source object store: the entries under dataFilesPath
  log,       \* the target Delta table's commits, oldest first
  pc,        \* position of the BatchProcessor: idle, constructed, epoch, folders, done, raised
  batch,     \* fields of the Batch object and locals of _process_schema_history
  result,    \* the Result of the current (or last) run
  runs,      \* history: one record per run (inputs at start, storage
             \* failures met, epochs handed to _process_schema_history)
  sup        \* the Processor: its arguments, its tasks and its results

vars == <<clock, manifest, src, log, pc, batch, result, runs, sup>>

\* schemaHistory keys of the upstream ("10" and "2": opaque strings).
Keys == {<<"1", "0">>, <<"2">>}

\* The table's dataFilesPath in the manifest, and where its tree really is.
DataFilesPath == <<"s", "3", ":", "/", "/", "b", "/", "t", "/">>
SourceRoot == <<"b", "/", "t">>

\* str.lstrip(chars): drops leading characters that belong to chars.
RECURSIVE Lstrip(_, _)
Lstrip(s, chars) ==
  IF s # <<>> /\ Head(s) \in chars THEN Lstrip(Tail(s), chars) ELSE s

\* str.rstrip(chars): drops trailing characters that belong to chars.
RECURSIVE Rstrip(_, _)
Rstrip(s, chars) ==
  IF s # <<>> /\ s[Len(s)] \in chars
  THEN Rstrip(SubSeq(s, 1, Len(s) - 1), chars) ELSE s

\* f"{filepath.rstrip('/')}/{key}/"
EpochUri(fp, key) == Rstrip(fp, {"/"}) \o <<"/">> \o key \o <<"/">>

\* Files an upstream write batch leaves in its timestamp directory, in the
\* order the listing returns them: name, extension, size, and whether the
\* parquet footer can be read.
GoodFiles ==
  <<[name |-> "a", ext |-> "parquet", size |-> 1, readable |-> TRUE]>>
NoFiles == <<>>
\* The smallest parquet file is unreadable, a larger one is readable; a file
\* that is not parquet lies beside them.
MixedFiles ==
  <<[name |-> "b", ext |-> "parquet", size |-> 2, readable |-> TRUE],
    [name |-> "a", ext |-> "parquet", size |-> 1, readable |-> FALSE],
    [name |-> "c", ext |-> "crc", size |-> 0, readable |-> FALSE]>>
BadFiles ==
  <<[name |-> "a", ext |-> "parquet", size |-> 1, readable |-> FALSE]>>
FileChoices == {GoodFiles, NoFiles, MixedFiles, BadFiles}

\* The path of file f of the timestamp directory d, as the listing gives it.
FilePath(d, f) == d.dir \o d.base_name \o <<"/", f.name, ".", f.ext>>

\* file.path.endswith(".parquet")
EndsWithParquet(path) ==
  Len(path) >= 2 /\ SubSeq(path, Len(path) - 1, Len(path)) = <<".", "parquet">>

\* f"s3://{file.path}"
S3Scheme == <<"s", "3", ":", "/", "/">>

\* A table whose last commit carries the sentinel watermark -1.
CorruptLog ==
  <<[operation |-> "CREATE", mode |-> "overwrite", run |-> 0,
     meta |-> [watermark |-> Str(0 - 1), schema_timestamp |-> Str(0)],
     actions |-> <<>>]>>

\* construct_log_uri of AzureDeltaLog and AWSDeltaLog (storage account or
\* bucket "a", container "c", no subfolder).
LogUri(target_cloud, table_name) ==
  IF target_cloud = "azure"
  THEN <<"abfss://", "c", "@", "a", ".dfs.core.windows.net/", table_name, "/">>
  ELSE <<"s3://", "a", "/", table_name, "/">>

NoBatch ==
  [run |-> 0, table_name |-> "t", log_uri |-> LogUri("azure", "t"),
   entry |-> [lastSuccessfulWriteTimestamp |-> Str(0),
               dataFilesPath |-> DataFilesPath, schemaHistory |-> <<>>],
   low_watermark |-> 0, watermark_schema_timestamp |-> 0,
   delta_log |-> <<>>, transaction_count |-> 0,
   schema_history_list |-> <<>>, item |-> 0,
   partial |-> FALSE, folders |-> <<>>, first_folder_for_schema |-> TRUE,
   cached_schema |-> <<>>, schema_call |-> <<>>]

NoResult ==
  [process_start_watermark |-> 0, process_start_version |-> 0,
   process_finish_time |-> FALSE, process_finish_watermark |-> <<>>,
   process_finish_version |-> <<>>, watermarks |-> <<>>,
   schema_timestamps |-> <<>>, errors |-> <<>>, warnings |-> <<>>]

\* No Processor: the Batch objects are constructed directly, for the table
\* "t" on Azure.
NoSup ==
  [target_cloud |-> "azure", table_names |-> <<>>, parallel |-> FALSE,
   phase |-> "none", current |-> 0, tasks |-> <<>>, results |-> <<>>,
   order |-> <<>>]

Init ==
  /\ clock = StartTime
  /\ manifest = [lastSuccessfulWriteTimestamp |-> Str(0),
                 dataFilesPath |-> DataFilesPath, schemaHistory |-> <<>>]
  /\ src = {}
  /\ log \in {<<>>, CorruptLog}
  /\ pc = "idle"
  /\ batch = NoBatch
  /\ result = NoResult
  /\ runs = <<>>
  /\ sup = NoSup

\* --------------------------------------------------------------- upstream
\* The upstream export is append-only and time-ordered: a schema epoch is a
\* period that starts at its timestamp, a write batch lands in the epoch
\* that is active when it is written and is named by the time of writing.
Between == pc \in {"idle", "done"} /\ Len(runs) < MaxRuns /\ clock <= MaxTime

UsedKeys == {manifest.schemaHistory[i][1] : i \in 1..Len(manifest.schemaHistory)}

InsertAt(s, pos, x) == SubSeq(s, 1, pos - 1) \o <<x>> \o SubSeq(s, pos, Len(s))

\* The key of the epoch with the greatest timestamp.
ActiveKey ==
  LET h == manifest.schemaHistory
      i == CHOOSE i \in 1..Len(h) :
             \A j \in 1..Len(h) : ParseInt(h[j][2]) <= ParseInt(h[i][2])
  IN  h[i][1]

\* A new schema becomes active; its key may sit anywhere in the JSON object.
UpstreamNewEpoch ==
  /\ Between
  /\ \E k \in Keys \ UsedKeys, pos \in 1..(Len(manifest.schemaHistory) + 1) :
       manifest' = [manifest EXCEPT
                      !.schemaHistory = InsertAt(@, pos, <<k, Str(clock)>>)]
  /\ clock' = clock + 1
  /\ UNCHANGED <<src, log, pc, batch, result, runs, sup>>

\* A write batch: a timestamp directory in the active epoch.
UpstreamWrite ==
  /\ Between
  /\ manifest.schemaHistory # <<>>
  /\ \E files \in FileChoices :
       src' = src \cup {[dir |-> EpochUri(SourceRoot, ActiveKey), type |-> "Directory",
                         base_name |-> Str(clock), files |-> files]}
  /\ manifest' = [manifest EXCEPT !.lastSuccessfulWriteTimestamp = Str(clock)]
  /\ clock' = clock + 1
  /\ UNCHANGED <<log, pc, batch, result, runs, sup>>

\* A directory that is not a timestamp appears in the active epoch.
TmpName == <<"_", "t", "m", "p">>

UpstreamJunk ==
  /\ Between
  /\ manifest.schemaHistory # <<>>
  /\ \A d \in src : d.base_name # TmpName
  /\ src' = src \cup {[dir |-> EpochUri(SourceRoot, ActiveKey), type |-> "Directory",
                       base_name |-> TmpName, files |-> NoFiles]}
  /\ UNCHANGED <<clock, manifest, log, pc, batch, result, runs, sup>>

\* ------------------------------------------------------------ BaseDeltaLog
VALID_MODES == {"append", "overwrite"}

\* The version a DeltaTable bound now would have; <<>> when no table exists.
Probe(lg) == IF lg = <<>> THEN <<>> ELSE <<Len(lg) - 1>>

\* delta_log.history(): the commits of the table, newest first.
History(lg) == [i \in 1..Len(lg) |-> lg[Len(lg) + 1 - i]]

\* latest_entry.get("operationParameters", {}): the commit's metadata.
OperationParameters(entry) ==
  IF "meta" \in DOMAIN entry THEN entry.meta ELSE <<>>

\* int(operation_parameters.get(key, 0)).
IntOfKey(p, key) ==
  IF key \notin DOMAIN p THEN [raised |-> FALSE, value |-> 0]
  ELSE IF IsInt(p[key]) THEN [raised |-> FALSE, value |-> ParseInt(p[key])]
  ELSE [raised |-> TRUE, value |-> 0]

\* The try block of _get_watermark_from_log on the outcome of history().
TryWatermark(read) ==
  IF read.raised
  THEN [raised |-> TRUE, watermark |-> 0, schema_timestamp |-> 0]
  ELSE IF read.history = <<>>
  THEN [raised |-> FALSE, watermark |-> 0, schema_timestamp |-> 0]
  ELSE LET p == OperationParameters(read.history[1])
           w == IntOfKey(p, "watermark")
           t == IntOfKey(p, "schema_timestamp")
       IN  IF w.raised \/ t.raised
           THEN [raised |-> TRUE, watermark |-> 0, schema_timestamp |-> 0]
           ELSE [raised |-> FALSE, watermark |-> w.value,
                 schema_timestamp |-> t.value]

\* Variant: the exception leaves _get_watermark_from_log.
Caught_Reraises(body) ==
  [raised |-> body.raised, warned |-> FALSE, watermark |-> body.watermark,
   schema_timestamp |-> body.schema_timestamp]

\* except Exception of _get_watermark_from_log: a warning and (0, 0).
Caught(body) ==
  [raised |-> FALSE, warned |-> body.raised, watermark |-> body.watermark,
   schema_timestamp |-> body.schema_timestamp]

\* BaseDeltaLog._get_watermark_from_log on a handle h, given what
\* delta_log.history() does.
WatermarkFromHistory(h, read) ==
  IF h = <<>>
  THEN [raised |-> FALSE, warned |-> FALSE, watermark |-> 0,
        schema_timestamp |-> 0]
  ELSE Caught(TryWatermark(read))

\* BaseDeltaLog._get_watermark_from_log on a handle h over the table lg
\* whose history can be read.
GetWatermarkFromLog(h, lg) ==
  WatermarkFromHistory(h, [raised |-> FALSE, history |-> History(lg)])

\* BaseDeltaLog._validate_parquet_info: the three keys are present, the
\* path is not empty, size and last_modified are not negative.
ValidParquetInfo(file) ==
  /\ {"path", "size", "last_modified"} \subseteq DOMAIN file
  /\ file.path # <<>> /\ file.size >= 0 /\ file.last_modified >= 0

\* The Add action add_transaction builds for one parquet descriptor.
AddAction(file) ==
  [path |-> file.path, size |-> file.size, partition_values |-> <<>>,
   modification_time |-> file.last_modified, data_change |-> FALSE,
   stats |-> "{}"]

\* int(os.getenv("DELTA_LOG_CHECKPOINT_INTERVAL", 100)) with the variable
\* unset.
DefaultCheckpointInterval == 100

\* What may fail after the write transaction was accepted: the refresh of
\* the handle, the creation of a checkpoint.
NoFaults == [refresh |-> FALSE, checkpoint |-> FALSE]

PostCommitFaults == [refresh : BOOLEAN, checkpoint : BOOLEAN]

\* Variant: a failed refresh leaves add_transaction as an exception.
Refresh_Raises(fails) == [raised |-> fails, calls |-> 1, slept |-> fails]

\* try: self.delta_log.update_incremental()  except: warning, sleep(10).
Refresh(fails) == [raised |-> FALSE, calls |-> 1, slept |-> fails]

\* Variant: a checkpoint after every commit.
CheckpointDue_Always(tc, interval) == tc >= 1

\* self.transaction_count % self.checkpoint_interval == 0.
CheckpointDue(tc, interval) == tc % interval = 0

\* BaseDeltaLog._create_checkpoint on a handle h.
CreateCheckpoint(h, fails) ==
  IF h = <<>> THEN "skipped" ELSE IF fails THEN "failed" ELSE "created"

\* Variant: an empty parquet list is let through.
Invalid_AllowsEmpty(mode, parquets) ==
  \/ mode \notin VALID_MODES
  \/ \E i \in 1..Len(parquets) : ~ValidParquetInfo(parquets[i])

\* The two tests at the head of add_transaction and the validation of each
\* descriptor.
Invalid(mode, parquets) ==
  \/ mode \notin VALID_MODES
  \/ parquets = <<>>
  \/ \E i \in 1..Len(parquets) : ~ValidParquetInfo(parquets[i])

\* BaseDeltaLog.add_transaction when the storage accepts the write.
\* h is self.delta_log, tc is self.transaction_count, r the run that writes,
\* interval is self.checkpoint_interval.
AddTransactionWith(h, tc, lg, parquets, watermark, schema_timestamp, mode, r, interval, faults) ==
  LET meta == [watermark |-> Str(watermark),
               schema_timestamp |-> Str(schema_timestamp)]
      actions == [i \in 1..Len(parquets) |-> AddAction(parquets[i])]
      early == mode \notin VALID_MODES \/ parquets = <<>>
      bound == IF h = <<>> THEN Probe(lg) ELSE h
      refresh == Refresh(faults.refresh)
      stale == IF refresh.slept
               THEN bound
               ELSE <<IF bound[1] + 1 > Len(lg)
                      THEN bound[1] + 1 ELSE Len(lg)>>
      no == [raised |-> FALSE, calls |-> 0, slept |-> FALSE]
  IN  IF Invalid(mode, parquets)
      THEN [raised |-> TRUE, error |-> "DeltaValidationError", log |-> lg,
            delta_log |-> IF early THEN h ELSE bound,
            transaction_count |-> tc, probed |-> ~early /\ h = <<>>,
            refresh |-> no, checkpoint |-> "none"]
      ELSE IF bound = <<>>
      THEN [raised |-> FALSE, error |-> "",
            log |-> <<[operation |-> "CREATE", mode |-> "overwrite",
                       run |-> r, meta |-> meta, actions |-> actions]>>,
            delta_log |-> <<>>,
            transaction_count |-> tc + 1, probed |-> TRUE,
            refresh |-> no,
            checkpoint |-> IF CheckpointDue(tc + 1, interval)
                           THEN CreateCheckpoint(<<>>, faults.checkpoint)
                           ELSE "none"]
      ELSE IF refresh.raised
      THEN [raised |-> TRUE, error |-> "DeltaError",
            log |-> Append(lg, [operation |-> "WRITE", mode |-> mode,
                                run |-> r, meta |-> meta,
                                actions |-> actions]),
            delta_log |-> bound, transaction_count |-> tc,
            probed |-> h = <<>>, refresh |-> refresh, checkpoint |-> "none"]
      ELSE [raised |-> FALSE, error |-> "",
            log |-> Append(lg, [operation |-> "WRITE", mode |-> mode,
                                run |-> r, meta |-> meta,
                                actions |-> actions]),
            delta_log |-> stale,
            transaction_count |-> tc + 1, probed |-> h = <<>>,
            refresh |-> refresh,
            checkpoint |-> IF CheckpointDue(tc + 1, interval)
                           THEN CreateCheckpoint(stale, faults.checkpoint)
                           ELSE "none"]

\* ------------------------------------------------------------------ Batch
\* sorted(seq, key=...) / list.sort(key=...): a stable ascending sort of s,
\* where keys[i] is the key of s[i].
StableSortBy(s, keys) ==
  LET n == Len(s)
      Rank(i) == Cardinality({j \in 1..n :
                                \/ keys[j] < keys[i]
                                \/ keys[j] = keys[i] /\ j < i}) + 1
  IN  [r \in 1..n |-> s[CHOOSE i \in 1..n : Rank(i) = r]]

\* Batch.__init__ for table_name: read the entry, bind the handle, recover
\* the watermark; with reset the watermarks are 0 and remove_log is called
\* (removed: delete_dir succeeded; a failure is logged and ignored).  The
\* handle bound before remove_log stays bound.
Construct(table_name, target_cloud, reset, removed) ==
  LET h == Probe(log)
      wi == GetWatermarkFromLog(h, log)
      low_watermark == IF reset THEN 0 ELSE wi.watermark
      watermark_schema_timestamp == IF reset THEN 0 ELSE wi.schema_timestamp
  IN  /\ batch' = [NoBatch EXCEPT
                     !.run = Len(runs) + 1,
                     !.table_name = table_name,
                     !.log_uri = LogUri(target_cloud, table_name),
                     !.entry = manifest,
                     !.delta_log = h,
                     !.low_watermark = low_watermark,
                     !.watermark_schema_timestamp = watermark_schema_timestamp]
      /\ log' = IF reset /\ removed THEN <<>> ELSE log
      /\ result' = [NoResult EXCEPT
                      !.process_start_watermark = low_watermark,
                      !.process_start_version = IF h # <<>> THEN h[1] ELSE 0]
      /\ runs' = Append(runs, [src |-> src, manifest |-> manifest,
                               low_watermark |-> low_watermark,
                               low_schema_timestamp |-> watermark_schema_timestamp,
                               existed |-> log # <<>>,
                               reset |-> reset,
                               start |-> log,
                               start_version |-> IF h # <<>> THEN h[1] ELSE 0,
                               commits |-> <<>>,
                               attempts |-> <<>>,
                               skipped |-> <<>>,
                               faults |-> IF reset /\ ~removed THEN 1 ELSE 0,
                               listed |-> <<>>,
                               raised |-> <<>>])
      /\ pc' = "constructed"

\* A log whose first version is gone: written through a handle that was
\* bound before the table was deleted.  Whether and how such a table loads
\* is not decided by this code; no Batch is constructed on it.
Headless(lg) == lg # <<>> /\ lg[1].operation # "CREATE"

\* A Batch is constructed for the table (reset is left at its default).
BatchInit ==
  /\ pc \in {"idle", "done", "raised"}
  /\ Len(runs) < MaxRuns
  /\ ~Headless(log)
  /\ Construct("t", sup.target_cloud, FALSE, FALSE)
  /\ UNCHANGED <<clock, manifest, src, sup>>

\* A Batch is constructed with reset=True.
BatchReset ==
  /\ pc \in {"idle", "done", "raised"}
  /\ Len(runs) < MaxRuns
  /\ ~Headless(log)
  /\ \E removed \in BOOLEAN :
       Construct("t", sup.target_cloud, TRUE, removed)
  /\ UNCHANGED <<clock, manifest, src, sup>>

\* The except branch of process_batch recording nothing.
Abandoned_Silent(res) == [res EXCEPT !.process_finish_time = TRUE]

\* The sentinel test mistaking 0 for the sentinel.
CorruptState_Zero(low_watermark) == low_watermark = 0

\* The freshness test with a strict comparison.
NothingNew_Strict(entry, low_watermark) ==
  ParseInt(entry.lastSuccessfulWriteTimestamp) < low_watermark

\* The three skip checks of process_batch.
CorruptState(low_watermark) == low_watermark = 0 - 1

NothingNew(entry, low_watermark) ==
  ParseInt(entry.lastSuccessfulWriteTimestamp) <= low_watermark

MissingEntryData(fp, schema_history) == fp = <<>> \/ schema_history = <<>>

\* self.entry["dataFilesPath"] or self.entry["schemaHistory"] raises KeyError.
MissingKey(entry) ==
  "dataFilesPath" \notin DOMAIN entry \/ "schemaHistory" \notin DOMAIN entry

\* sorted((item for item in schema_history.items() if int(item[1]) >= wst),
\*        key=lambda kv: int(kv[1]))
TimestampOf(kv) == ParseInt(kv[2])

\* The epochs sorted by their key instead of their timestamp.
KeyOf(kv) == ParseInt(kv[1])

SortedSchemaHistory_ByKey(schema_history, wst) ==
  LET items == SelectSeq(schema_history, LAMBDA kv : TimestampOf(kv) >= wst)
  IN  StableSortBy(items, [i \in 1..Len(items) |-> KeyOf(items[i])])

\* The filter with a strict comparison.
SortedSchemaHistory_Strict(schema_history, wst) ==
  LET items == SelectSeq(schema_history, LAMBDA kv : TimestampOf(kv) > wst)
  IN  StableSortBy(items, [i \in 1..Len(items) |-> TimestampOf(items[i])])

SortedSchemaHistory(schema_history, wst) ==
  LET items == SelectSeq(schema_history, LAMBDA kv : TimestampOf(kv) >= wst)
  IN  StableSortBy(items, [i \in 1..Len(items) |-> TimestampOf(items[i])])

SchemaHistoryList(fp, sorted_schema_history) ==
  [i \in 1..Len(sorted_schema_history) |->
     [key |-> sorted_schema_history[i][1],
      uri |-> EpochUri(fp, sorted_schema_history[i][1]),
      schema_timestamp |-> ParseInt(sorted_schema_history[i][2])]]

Finished(res) == [res EXCEPT !.process_finish_time = TRUE]

Skipped(res, low_watermark) ==
  [res EXCEPT !.process_finish_time = TRUE,
              !.process_finish_watermark = <<low_watermark>>]

\* The except branch of process_batch.
Abandoned(res) ==
  Finished([res EXCEPT !.errors = Append(@, "processing abandoned")])

\* process_batch up to the epoch loop.
ProcessBatch ==
  /\ pc = "constructed"
  /\ LET low == batch.low_watermark
         fp == Lstrip(batch.entry.dataFilesPath, {"s", "3", ":", "/"})
         sh == batch.entry.schemaHistory
         list == SchemaHistoryList(fp,
                   SortedSchemaHistory(sh, batch.watermark_schema_timestamp))
     IN  IF CorruptState(low)
         THEN /\ result' = Skipped([result EXCEPT
                             !.errors = Append(@, "low watermark is -1")], low)
              /\ pc' = "done"
              /\ UNCHANGED batch
         ELSE IF NothingNew(batch.entry, low)
         THEN /\ result' = Skipped([result EXCEPT
                             !.warnings = Append(@, "nothing new")], low)
              /\ pc' = "done"
              /\ UNCHANGED batch
         ELSE IF MissingKey(batch.entry)
         THEN \* KeyError, outside the try: process_batch raises
              /\ pc' = "raised"
              /\ UNCHANGED <<batch, result>>
         ELSE IF MissingEntryData(fp, sh)
         THEN /\ result' = Skipped([result EXCEPT
                             !.errors = Append(@, "missing entry data")], low)
              /\ pc' = "done"
              /\ UNCHANGED batch
         ELSE IF list = <<>>
         THEN /\ result' = Finished(result)
              /\ pc' = "done"
              /\ UNCHANGED batch
         ELSE /\ batch' = [batch EXCEPT !.schema_history_list = list, !.item = 1]
              /\ pc' = "epoch"
              /\ UNCHANGED result
  /\ UNCHANGED <<clock, manifest, src, log, runs, sup>>

\* manifest.fs.get_file_info(directory): the entries directly under uri.
GetFileInfo(uri) == {d \in src : d.dir = uri}

\* _get_dir_list without the partial branch: the filtered list is returned
\* as if the whole epoch were new.
GetDirList_NoPartial(listed_paths, low_watermark) ==
  LET dirs == {p \in listed_paths : p.type = "Directory"}
      part_list == SortedStr({p.base_name : p \in
                     {q \in dirs : ParseInt(q.base_name) > low_watermark}})
  IN  IF \E p \in dirs : ~IsInt(p.base_name)
      THEN [raised |-> TRUE, partial |-> FALSE, list |-> <<>>]
      ELSE IF part_list = <<>>
      THEN [raised |-> FALSE, partial |-> TRUE, list |-> <<>>]
      ELSE [raised |-> FALSE, partial |-> FALSE, list |-> part_list]

\* Batch._get_dir_list.  All paths of one listing share the prefix uri, so
\* sorting the paths is sorting the base names; the lists hold base names.
\* int(path.base_name) is evaluated for every directory and raises
\* ValueError on a name that is not an integer.
GetDirList(listed_paths, low_watermark) ==
  LET dirs == {p \in listed_paths : p.type = "Directory"}
      full_list == SortedStr({p.base_name : p \in dirs})
      part_list == SortedStr({p.base_name : p \in
                     {q \in dirs : ParseInt(q.base_name) > low_watermark}})
  IN  IF \E p \in dirs : ~IsInt(p.base_name)
      THEN [raised |-> TRUE, partial |-> FALSE, list |-> <<>>]
      ELSE IF part_list = <<>>
      THEN [raised |-> FALSE, partial |-> TRUE, list |-> <<>>]
      ELSE IF Len(part_list) < Len(full_list)
      THEN [raised |-> FALSE, partial |-> TRUE, list |-> part_list]
      ELSE [raised |-> FALSE, partial |-> FALSE, list |-> full_list]

\* The numeric filter of _process_schema_history.
ValidTimestampFolders(timestamp_folders) ==
  SelectSeq(timestamp_folders, LAMBDA folder : IsInt(folder))

\* The descriptors carrying the listed path without the scheme.
GetParquetList_NoScheme(uri, base_name) ==
  LET d == CHOOSE d \in src : d.dir = uri /\ d.base_name = base_name
      files == SelectSeq(d.files, LAMBDA f : EndsWithParquet(FilePath(d, f)))
  IN  [i \in 1..Len(files) |->
         [relative_path |-> FilePath(d, files[i]),
          path |-> FilePath(d, files[i]),
          last_modified |-> 0,
          size |-> files[i].size]]

\* The listing without the filter on the file name.
GetParquetList_AllFiles(uri, base_name) ==
  LET d == CHOOSE d \in src : d.dir = uri /\ d.base_name = base_name
  IN  [i \in 1..Len(d.files) |->
         [relative_path |-> FilePath(d, d.files[i]),
          path |-> S3Scheme \o FilePath(d, d.files[i]),
          last_modified |-> 0,
          size |-> d.files[i].size]]

\* Batch._get_parquet_list on the timestamp directory base_name under uri:
\* one descriptor per listed file whose path ends in ".parquet".
GetParquetList(uri, base_name) ==
  LET d == CHOOSE d \in src : d.dir = uri /\ d.base_name = base_name
      files == SelectSeq(d.files, LAMBDA f : EndsWithParquet(FilePath(d, f)))
  IN  [i \in 1..Len(files) |->
         [relative_path |-> FilePath(d, files[i]),
          path |-> S3Scheme \o FilePath(d, files[i]),
          last_modified |-> 0,
          size |-> files[i].size]]

\* Batch._get_parquet_schema succeeds on the file at path.
GetParquetSchema(path) ==
  \E d \in src : \E i \in 1..Len(d.files) :
    FilePath(d, d.files[i]) = path /\ d.files[i].readable

\* The sort key taken with the wrong sign: largest file first.
SizeOf_Descending(f) == 0 - f.size

\* The size key of the sort in _schema_finder.
SizeOf(f) == f.size

\* Batch._schema_finder: file_list.sort(key=size) in place, then the files
\* are tried in that order up to the first whose schema can be read.  tried
\* lists the files whose footer was read, cached_schema holds the file that
\* gave the schema (<<>> for None).
SchemaFinder(file_list) ==
  LET sorted == StableSortBy(file_list,
                             [i \in 1..Len(file_list) |-> SizeOf(file_list[i])])
      ok == {i \in 1..Len(sorted) : GetParquetSchema(sorted[i].relative_path)}
      last == IF ok = {} THEN Len(sorted)
              ELSE CHOOSE i \in ok : \A j \in ok : i <= j
  IN  [file_list |-> sorted,
       found |-> ok # {},
       tried |-> [i \in 1..last |-> sorted[i].relative_path],
       cached_schema |-> IF ok = {} THEN <<>>
                         ELSE <<sorted[last].relative_path>>]

\* The mode choice with its condition inverted.
FirstMode_Inverted(partial) == IF partial THEN "overwrite" ELSE "append"

\* mode of the first commit of an epoch.
FirstMode(partial) == IF ~partial THEN "overwrite" ELSE "append"

\* Every commit of an epoch given the mode of the first one.
ModeOf_AlwaysFirst(first, partial) == FirstMode(partial)

\* The mode argument of the two add_transaction calls of the partition loop.
ModeOf(first, partial) == IF first THEN FirstMode(partial) ELSE "append"

Item == batch.schema_history_list[batch.item]

\* The run the Batch object belongs to.
Run == batch.run

Fault == [runs EXCEPT ![Run].faults = @ + 1]

\* History: an exception left _process_schema_history while the table was lg.
Raised(h, lg) == [h EXCEPT ![Run].raised = <<lg>>]

\* The partition at the head of the loop: <<schema timestamp, folder name>>.
Partition == <<Item.schema_timestamp, Head(batch.folders)>>

\* History: add_transaction was called for the partition.
Attempted(h) == [h EXCEPT ![Run].attempts = Append(@, Partition)]

\* _process_schema_history up to the partition loop: list the epoch.
ListEpoch ==
  /\ pc = "epoch"
  /\ LET r == GetDirList(GetFileInfo(Item.uri), batch.low_watermark)
         listed == [runs EXCEPT ![Run].listed = Append(@, Item)]
     IN  IF r.raised
         THEN /\ result' = Abandoned(result)
              /\ pc' = "done"
              /\ runs' = Raised(listed, log)
              /\ UNCHANGED batch
         ELSE /\ batch' = [batch EXCEPT
                             !.partial = r.partial,
                             !.folders = ValidTimestampFolders(r.list),
                             !.first_folder_for_schema = TRUE]
              /\ pc' = "folders"
              /\ runs' = listed
              /\ UNCHANGED result
  /\ UNCHANGED <<clock, manifest, src, log, sup>>

\* get_file_info on the epoch directory fails: the exception leaves the loop.
ListEpochFails ==
  /\ pc = "epoch"
  /\ result' = Abandoned(result)
  /\ pc' = "done"
  /\ runs' = Raised([Fault EXCEPT ![Run].listed = Append(@, Item)], log)
  /\ UNCHANGED <<clock, manifest, src, log, batch, sup>>

\* What one iteration of the partition loop does when the storage answers
\* the listing and accepts the write.
FolderStepWith(faults) ==
  LET folder == Head(batch.folders)
      timestamp_value == ParseInt(folder)
      files_in_timestamp == GetParquetList(Item.uri, folder)
      first == batch.first_folder_for_schema
      sf == SchemaFinder(files_in_timestamp)
      parquets == IF first THEN sf.file_list ELSE files_in_timestamp
      mode == ModeOf(first, batch.partial)
      tx == AddTransactionWith(batch.delta_log, batch.transaction_count, log,
                               parquets, timestamp_value,
                               Item.schema_timestamp, mode, Run,
                               DefaultCheckpointInterval, faults)
  IN  [timestamp_value |-> timestamp_value,
       first |-> first,
       found |-> sf.found,
       commits |-> IF first THEN sf.found ELSE TRUE,
       cached_schema |-> IF first THEN sf.cached_schema ELSE batch.cached_schema,
       schema_call |-> IF first
                       THEN <<[uri |-> Item.uri, folder |-> folder,
                               tried |-> sf.tried]>>
                       ELSE batch.schema_call,
       parquets |-> parquets,
       tx |-> tx]

\* The iteration when nothing fails after the write.
FolderStep == FolderStepWith(NoFaults)

WithSchemaTimestamp(res, first) ==
  IF first THEN [res EXCEPT !.schema_timestamps = Append(@, Item.schema_timestamp)]
  ELSE res

\* One iteration of the partition loop, s being what the iteration does.
Iteration(s) ==
  /\ pc = "folders"
  /\ batch.folders # <<>>
  /\ LET res == WithSchemaTimestamp(result, s.first)
         b == [batch EXCEPT !.cached_schema = s.cached_schema,
                            !.schema_call = s.schema_call]
     IN  IF ~s.commits
         THEN \* schema not found: _log_error, raise, except of process_batch
              /\ result' = Abandoned([res EXCEPT
                              !.errors = Append(@, "schema not found")])
              /\ pc' = "done"
              /\ batch' = b
              /\ runs' = Raised(runs, log)
              /\ UNCHANGED log
         ELSE IF s.tx.raised
         THEN /\ result' = Abandoned(res)
              /\ pc' = "done"
              /\ batch' = [b EXCEPT !.first_folder_for_schema = FALSE]
              /\ runs' = Raised(Attempted(runs), s.tx.log)
              /\ log' = s.tx.log
         ELSE /\ log' = s.tx.log
              /\ batch' = [b EXCEPT
                             !.first_folder_for_schema = FALSE,
                             !.delta_log = s.tx.delta_log,
                             !.transaction_count = s.tx.transaction_count,
                             !.folders = Tail(@)]
              /\ result' = [res EXCEPT
                              !.watermarks = Append(@, s.timestamp_value),
                              !.process_finish_watermark = <<s.timestamp_value>>,
                              !.process_finish_version =
                                 IF s.tx.delta_log # <<>>
                                 THEN s.tx.delta_log ELSE <<0>>]
              /\ pc' = "folders"
              /\ runs' = [Attempted(runs) EXCEPT
                            ![Run].commits = Append(@, s.tx.log[Len(s.tx.log)])]
  /\ UNCHANGED <<clock, manifest, src, sup>>

ProcessFolder ==
  /\ pc = "folders"
  /\ Iteration(FolderStep)

\* An iteration whose write is accepted and whose handle refresh fails.
RefreshFails ==
  /\ pc = "folders"
  /\ batch.folders # <<>>
  /\ LET s == FolderStepWith([NoFaults EXCEPT !.refresh = TRUE])
     IN  /\ s.commits
         /\ s.tx.refresh.calls > 0
         /\ Iteration(s)

\* Variant: a failed partition listing abandons the table.
ListFolderFails_Aborts ==
  /\ pc = "folders"
  /\ batch.folders # <<>>
  /\ result' = Abandoned(result)
  /\ pc' = "done"
  /\ runs' = Raised([Fault EXCEPT ![Run].skipped = Append(@, Partition)], log)
  /\ UNCHANGED <<clock, manifest, src, log, batch, sup>>

\* _get_parquet_list fails: logged, the partition is skipped (continue).
ListFolderFails ==
  /\ pc = "folders"
  /\ batch.folders # <<>>
  /\ batch' = [batch EXCEPT !.folders = Tail(@)]
  /\ runs' = [Fault EXCEPT ![Run].skipped = Append(@, Partition)]
  /\ UNCHANGED <<clock, manifest, src, log, pc, result, sup>>

\* Variant: a rejected commit is swallowed and the loop goes on.
CommitFails_Continues ==
  /\ pc = "folders"
  /\ batch.folders # <<>>
  /\ LET s == FolderStep
     IN  /\ s.commits
         /\ ~s.tx.raised
         /\ result' = WithSchemaTimestamp(result, s.first)
         /\ batch' = [batch EXCEPT !.first_folder_for_schema = FALSE,
                                   !.cached_schema = s.cached_schema,
                                   !.schema_call = s.schema_call,
                                   !.folders = Tail(@)]
  /\ pc' = "folders"
  /\ runs' = Attempted(Fault)
  /\ UNCHANGED <<clock, manifest, src, log, sup>>

\* The storage rejects the commit: add_transaction raises DeltaError.
CommitFails ==
  /\ pc = "folders"
  /\ batch.folders # <<>>
  /\ LET s == FolderStep
     IN  /\ s.commits
         /\ ~s.tx.raised
         /\ result' = Abandoned(WithSchemaTimestamp(result, s.first))
         /\ batch' = [batch EXCEPT !.first_folder_for_schema = FALSE,
                                   !.cached_schema = s.cached_schema,
                                   !.schema_call = s.schema_call]
  /\ pc' = "done"
  /\ runs' = Raised(Attempted(Fault), log)
  /\ UNCHANGED <<clock, manifest, src, log, sup>>

\* The partition loop ends: the next epoch, or the end of process_batch.
EndEpoch ==
  /\ pc = "folders"
  /\ batch.folders = <<>>
  /\ IF batch.item < Len(batch.schema_history_list)
     THEN /\ batch' = [batch EXCEPT !.item = @ + 1]
          /\ pc' = "epoch"
          /\ UNCHANGED result
     ELSE /\ result' = Finished(result)
          /\ pc' = "done"
          /\ UNCHANGED batch
  /\ UNCHANGED <<clock, manifest, src, log, runs, sup>>

Next ==
  \/ UpstreamNewEpoch
  \/ UpstreamWrite
  \/ UpstreamJunk
  \/ BatchInit
  \/ ProcessBatch
  \/ ListEpoch
  \/ ListEpochFails
  \/ ProcessFolder
  \/ ListFolderFails
  \/ CommitFails
  \/ EndEpoch

Spec == Init /\ [][Next]_vars

\* -------------------------------------------------------------- Processor
\* A published table: one schema epoch with one timestamp partition.
SupKey == <<"2">>

SupEntry ==
  [lastSuccessfulWriteTimestamp |-> Str(8), dataFilesPath |-> DataFilesPath,
   schemaHistory |-> <<<<SupKey, Str(7)>>>>]

SupTree ==
  {[dir |-> EpochUri(SourceRoot, SupKey), type |-> "Directory",
    base_name |-> Str(8), files |-> MixedFiles]}

\* The names a caller may hand to the Processor: "t" is in the manifest,
\* "ghost" is not.
TableNames == {"t", "ghost"}

TableLists == UNION {[1..n -> TableNames] : n \in 1..MaxTables}

NoTask == [status |-> "pending", run |-> 0, failed |-> FALSE,
           ctx |-> <<>>, ret |-> <<>>]

\* Processor.__init__ with table_names given by the caller; run() not yet
\* called.  The Delta table of "t" does not exist yet.
SupInit ==
  /\ clock = StartTime
  /\ manifest = SupEntry
  /\ src = SupTree
  /\ log = <<>>
  /\ pc = "idle"
  /\ batch = NoBatch
  /\ result = NoResult
  /\ runs = <<>>
  /\ \E target_cloud \in {"azure", "aws"}, table_names \in TableLists,
        parallel \in BOOLEAN :
       sup = [target_cloud |-> target_cloud, table_names |-> table_names,
              parallel |-> parallel, phase |-> "constructed", current |-> 0,
              tasks |-> [i \in 1..Len(table_names) |-> NoTask],
              results |-> <<>>, order |-> <<>>]

\* Manifest.read(entry): <<>> for None.
ManifestRead(entry) == IF entry = "t" THEN <<manifest>> ELSE <<>>

\* Processor.run is called.
SupRun ==
  /\ sup.phase = "constructed"
  /\ sup' = [sup EXCEPT !.phase = "running"]
  /\ UNCHANGED <<clock, manifest, src, log, pc, batch, result, runs>>

\* Every task may start at once.
MayStart_Any(i) == TRUE

\* Task i may start: in parallel mode Ray starts the tasks concurrently, in
\* sequential mode the for loop has finished the tables before i.
MayStart(i) ==
  \/ sup.parallel
  \/ \A j \in 1..(i - 1) : sup.tasks[j].status = "returned"

\* The exception of a task reaching run() instead of being caught.
TaskFails_Propagates(task) == [task EXCEPT !.status = "raised", !.failed = TRUE]

\* process_table / process_table_async caught an exception, or found no
\* manifest entry: it returns batch_result, which is still None.
TaskFails(task) ==
  [task EXCEPT !.status = "returned", !.failed = TRUE, !.ret = <<>>]

\* The value a returned task contributes to results: <<>> for None.
Collected(s, i, task) ==
  [s EXCEPT !.tasks[i] = task,
            !.results = IF s.parallel \/ task.status # "returned" THEN @
                        ELSE Append(@, task.ret)]

\* The task in focus leaves the processor: its Batch fields and Result are
\* kept with the task.
Parked(s) ==
  IF s.current = 0 THEN s
  ELSE [s EXCEPT !.tasks[s.current].ctx =
                    <<[pc |-> pc, batch |-> batch, result |-> result]>>]

\* process_table(entry) for task i up to the construction of the Batch.
ProcessTable(i) ==
  /\ sup.phase = "running"
  /\ sup.tasks[i].status = "pending"
  /\ MayStart(i)
  /\ LET manifest_entry == ManifestRead(sup.table_names[i])
         started == [sup EXCEPT !.order = Append(@, i)]
     IN  IF manifest_entry = <<>>
         THEN /\ sup' = Collected(started, i, TaskFails(sup.tasks[i]))
              /\ UNCHANGED <<log, pc, batch, result, runs>>
         ELSE /\ Construct(sup.table_names[i], sup.target_cloud, FALSE, FALSE)
              /\ sup' = [Parked(started) EXCEPT
                           !.current = i,
                           !.tasks[i].status = "active",
                           !.tasks[i].run = Len(runs) + 1]
  /\ UNCHANGED <<clock, manifest, src>>

\* Batch(...) raises for task i (the log cannot be read, the storage cannot
\* be reached): the except branch of process_table.
ConstructFails(i) ==
  /\ sup.phase = "running"
  /\ sup.tasks[i].status = "pending"
  /\ MayStart(i)
  /\ ManifestRead(sup.table_names[i]) # <<>>
  /\ sup' = Collected([sup EXCEPT !.order = Append(@, i)], i,
                      TaskFails(sup.tasks[i]))
  /\ UNCHANGED <<clock, manifest, src, log, pc, batch, result, runs>>

\* Parallel mode: another active task gets the processor.
Switch(i) ==
  /\ sup.phase = "running"
  /\ sup.parallel
  /\ sup.current # i
  /\ sup.tasks[i].status = "active"
  /\ LET ctx == sup.tasks[i].ctx[1]
     IN  /\ pc' = ctx.pc
         /\ batch' = ctx.batch
         /\ result' = ctx.result
  /\ sup' = [Parked(sup) EXCEPT !.current = i, !.tasks[i].ctx = <<>>]
  /\ UNCHANGED <<clock, manifest, src, log, runs>>

\* process_batch has returned: process_table returns its Result.
ReturnTable ==
  /\ sup.phase = "running"
  /\ sup.current # 0
  /\ pc = "done"
  /\ sup' = [Collected(sup, sup.current,
                       [sup.tasks[sup.current] EXCEPT
                          !.status = "returned",
                          !.failed = runs[Run].raised # <<>>,
                          !.ret = <<result>>])
             EXCEPT !.current = 0]
  /\ UNCHANGED <<clock, manifest, src, log, pc, batch, result, runs>>

\* run() returns: every task has returned; in parallel mode ray.get hands
\* back the values of the futures in table_names order.
SupFinish ==
  /\ sup.phase = "running"
  /\ \A i \in 1..Len(sup.tasks) : sup.tasks[i].status = "returned"
  /\ sup' = [sup EXCEPT
               !.phase = "returned",
               !.results = IF sup.parallel
                           THEN [i \in 1..Len(sup.tasks) |-> sup.tasks[i].ret]
                           ELSE @]
  /\ UNCHANGED <<clock, manifest, src, log, pc, batch, result, runs>>

\* An exception reaches run(): Ray fails (parallel mode), or a task let an
\* exception through.  run() logs it and raises.
RunRaises ==
  /\ sup.phase = "running"
  /\ \/ sup.parallel
     \/ \E i \in 1..Len(sup.tasks) : sup.tasks[i].status = "raised"
  /\ sup' = [sup EXCEPT !.phase = "raised"]
  /\ UNCHANGED <<clock, manifest, src, log, pc, batch, result, runs>>

\* A task is in focus: the Batch steps below are its steps.
InFocus == sup.phase = "running" /\ sup.current # 0

SupNext ==
  \/ SupRun
  \/ \E i \in 1..Len(sup.tasks) : ProcessTable(i)
  \/ \E i \in 1..Len(sup.tasks) : ConstructFails(i)
  \/ \E i \in 1..Len(sup.tasks) : Switch(i)
  \/ InFocus /\ ProcessBatch
  \/ InFocus /\ ListEpoch
  \/ InFocus /\ ListEpochFails
  \/ InFocus /\ ProcessFolder
  \/ InFocus /\ ListFolderFails
  \/ InFocus /\ CommitFails
  \/ InFocus /\ EndEpoch
  \/ ReturnTable
  \/ SupFinish
  \/ RunRaises

SupSpec == SupInit /\ [][SupNext]_vars

\* ------------------------------------------------------------------ reset
\* Runs on a published table of one schema epoch and two timestamp
\* partitions, when the caller may also ask for a reset.
ResetEntry == [SupEntry EXCEPT !.lastSuccessfulWriteTimestamp = Str(StartTime + 1)]

ResetTree(first, second) ==
  {[dir |-> EpochUri(SourceRoot, SupKey), type |-> "Directory",
    base_name |-> Str(StartTime), files |-> first],
   [dir |-> EpochUri(SourceRoot, SupKey), type |-> "Directory",
    base_name |-> Str(StartTime + 1), files |-> second]}

\* A timestamp directory that holds a file, but no parquet file.
OtherFiles ==
  <<[name |-> "c", ext |-> "crc", size |-> 0, readable |-> FALSE]>>

ResetInit ==
  /\ clock = StartTime + 2
  /\ manifest = ResetEntry
  /\ \E first, second \in FileChoices \cup {OtherFiles} :
       src = ResetTree(first, second)
  /\ log \in {<<>>, CorruptLog}
  /\ pc = "idle"
  /\ batch = NoBatch
  /\ result = NoResult
  /\ runs = <<>>
  /\ sup = NoSup

ResetNext ==
  \/ BatchInit
  \/ BatchReset
  \/ ProcessBatch
  \/ ListEpoch
  \/ ListEpochFails
  \/ ProcessFolder
  \/ ListFolderFails
  \/ CommitFails
  \/ EndEpoch

ResetSpec == ResetInit /\ [][ResetNext]_vars

\* --------------------------------------------------------------- recovery
\* What the latest commit of a table found at construction may carry under
\* each metadata key: integers as str() writes them, and text that int()
\* rejects.
MetaValues ==
  {Str(0 - 1), Str(0), Str(StartTime + 1), Str(StartTime + 2),
   <<>>, <<"x">>, <<"1", "x">>}

MetaKeys == {"watermark", "schema_timestamp"}

MetaChoices == UNION {[K -> MetaValues] : K \in SUBSET MetaKeys}

\* The latest commit: with metadata under some of the keys, or with no
\* operation parameters at all.
LatestCommits ==
  {[operation |-> "WRITE", mode |-> "append", run |-> 0, meta |-> m,
    actions |-> <<>>] : m \in MetaChoices}
  \cup {[operation |-> "WRITE", mode |-> "append", run |-> 0,
         actions |-> <<>>]}

RecoveryLogs == {<<>>} \cup {CorruptLog \o <<c>> : c \in LatestCommits}

RecoveryInit ==
  /\ clock = StartTime
  /\ manifest = [lastSuccessfulWriteTimestamp |-> Str(0),
                 dataFilesPath |-> DataFilesPath, schemaHistory |-> <<>>]
  /\ src = {}
  /\ log \in RecoveryLogs
  /\ pc = "idle"
  /\ batch = NoBatch
  /\ result = NoResult
  /\ runs = <<>>
  /\ sup = NoSup

\* Batch.__init__ builds the DeltaLog object and asks it for the watermark;
\* reading the history of a bound table may fail.
Recover ==
  /\ pc = "idle"
  /\ \E fails \in BOOLEAN :
       LET h == Probe(log)
           read == IF fails THEN [raised |-> TRUE, history |-> <<>>]
                   ELSE [raised |-> FALSE, history |-> History(log)]
       IN  /\ fails => h # <<>>
           /\ batch' = [delta_log |-> h, read |-> read,
                        watermark_info |-> WatermarkFromHistory(h, read)]
  /\ pc' = "recovered"
  /\ UNCHANGED <<clock, manifest, src, log, result, runs, sup>>

RecoveryNext == Recover

RecoverySpec == RecoveryInit /\ [][RecoveryNext]_vars

\* ------------------------------------------------------------------ entry
\* Runs on manifest entries that may lack dataFilesPath or schemaHistory,
\* or hold them empty; the source is a published table of three partitions.
\* The refresh of the handle after a write may fail.
\* The same table in the bucket "sb".
OtherBucketPath == S3Scheme \o <<"s", "b", "/", "t", "/">>

PathChoices == {<<>>, S3Scheme, DataFilesPath, OtherBucketPath}

HistoryChoices == {<<>>, ResetEntry.schemaHistory}

WatermarkChoices == {Str(0), Str(StartTime + 2)}

EntryTree ==
  ResetTree(GoodFiles, MixedFiles)
  \cup {[dir |-> EpochUri(SourceRoot, SupKey), type |-> "Directory",
          base_name |-> Str(StartTime + 2), files |-> GoodFiles]}

EntriesWith(w) ==
  {[lastSuccessfulWriteTimestamp |-> w, dataFilesPath |-> p,
    schemaHistory |-> h] : p \in PathChoices, h \in HistoryChoices}
  \cup {[lastSuccessfulWriteTimestamp |-> w, dataFilesPath |-> p] :
          p \in PathChoices}
  \cup {[lastSuccessfulWriteTimestamp |-> w, schemaHistory |-> h] :
          h \in HistoryChoices}
  \cup {[lastSuccessfulWriteTimestamp |-> w]}

EntryChoices == UNION {EntriesWith(w) : w \in WatermarkChoices}

EntryInit ==
  /\ clock = StartTime + 3
  /\ manifest \in EntryChoices
  /\ src = EntryTree
  /\ log \in {<<>>, CorruptLog}
  /\ pc = "idle"
  /\ batch = NoBatch
  /\ result = NoResult
  /\ runs = <<>>
  /\ sup = NoSup

EntryNext ==
  \/ BatchInit
  \/ ProcessBatch
  \/ ListEpoch
  \/ ListEpochFails
  \/ ProcessFolder
  \/ RefreshFails
  \/ ListFolderFails
  \/ CommitFails
  \/ EndEpoch

EntrySpec == EntryInit /\ [][EntryNext]_vars

\* ----------------------------------------------------------------- handle
\* One DeltaLog object and the add_transaction calls made on it, with any
\* arguments a caller may pass.
GoodParquet ==
  [path |-> S3Scheme \o <<"f">>, size |-> 1, last_modified |-> 0]

BadParquets ==
  {[size |-> 1, last_modified |-> 0],
   [path |-> S3Scheme \o <<"f">>, last_modified |-> 0],
   [path |-> S3Scheme \o <<"f">>, size |-> 1],
   [GoodParquet EXCEPT !.path = <<>>],
   [GoodParquet EXCEPT !.size = 0 - 1],
   [GoodParquet EXCEPT !.last_modified = 0 - 1]}

ParquetChoices ==
  {<<>>, <<GoodParquet>>} \cup {<<GoodParquet, b>> : b \in BadParquets}

ModeChoices == {"append", "overwrite", "merge"}

TxInit ==
  /\ clock = StartTime
  /\ manifest = [lastSuccessfulWriteTimestamp |-> Str(0),
                 dataFilesPath |-> DataFilesPath, schemaHistory |-> <<>>]
  /\ src = {}
  /\ log \in {<<>>, CorruptLog}
  /\ pc = "idle"
  /\ batch = NoBatch
  /\ result = NoResult
  /\ runs = <<>>
  /\ sup = NoSup

\* The DeltaLog constructor: the interval is read from the environment, the
\* table is probed.
HandleInit ==
  /\ pc = "idle"
  /\ \E interval \in 1..MaxInterval :
       batch' = [delta_log |-> Probe(log), transaction_count |-> 0,
                 checkpoint_interval |-> interval, checkpoints |-> <<>>,
                 stale |-> FALSE, last |-> <<>>]
  /\ pc' = "handle"
  /\ UNCHANGED <<clock, manifest, src, log, result, runs, sup>>

\* Nothing can fail after a write that the arguments do not allow.
FaultsFor(mode, parquets) ==
  IF mode \in VALID_MODES /\ parquets = <<GoodParquet>>
  THEN PostCommitFaults ELSE {NoFaults}

\* The handle before a call.
Before ==
  [log |-> log, delta_log |-> batch.delta_log,
   transaction_count |-> batch.transaction_count, stale |-> batch.stale]

\* add_transaction is called and the storage accepts the write, if one is
\* made; the refresh or the checkpoint may fail.
AddTx ==
  /\ pc = "handle"
  /\ batch.transaction_count < MaxCommits
  /\ \E mode \in ModeChoices, parquets \in ParquetChoices :
     \E faults \in FaultsFor(mode, parquets) :
       LET watermark == StartTime + batch.transaction_count
           tx == AddTransactionWith(batch.delta_log, batch.transaction_count,
                                    log, parquets, watermark, StartTime - 1,
                                    mode, 0, batch.checkpoint_interval, faults)
       IN  /\ faults.refresh => tx.refresh.slept
           /\ faults.checkpoint => tx.checkpoint = "failed"
           /\ log' = tx.log
           /\ batch' = [batch EXCEPT
                          !.delta_log = tx.delta_log,
                          !.transaction_count = tx.transaction_count,
                          !.checkpoints = IF tx.raised THEN @
                                          ELSE Append(@, tx.checkpoint),
                          !.stale = IF tx.raised THEN @ ELSE tx.refresh.slept,
                          !.last = <<[mode |-> mode, parquets |-> parquets,
                                      watermark |-> watermark,
                                      before |-> Before,
                                      raised |-> tx.raised,
                                      error |-> tx.error,
                                      probed |-> tx.probed,
                                      refresh |-> tx.refresh,
                                      checkpoint |-> tx.checkpoint]>>]
  /\ UNCHANGED <<clock, manifest, src, pc, result, runs, sup>>

\* add_transaction is called with valid arguments and the storage rejects
\* the write: DeltaError.
TxRejected ==
  /\ pc = "handle"
  /\ \E mode \in VALID_MODES :
       batch' = [batch EXCEPT
                   !.delta_log = IF @ = <<>> THEN Probe(log) ELSE @,
                   !.last = <<[mode |-> mode, parquets |-> <<GoodParquet>>,
                               watermark |-> StartTime + batch.transaction_count,
                               before |-> Before,
                               raised |-> TRUE, error |-> "DeltaError",
                               probed |-> batch.delta_log = <<>>,
                               refresh |-> [raised |-> FALSE, calls |-> 0,
                                            slept |-> FALSE],
                               checkpoint |-> "none"]>>]
  /\ UNCHANGED <<clock, manifest, src, log, pc, result, runs, sup>>

TxNext == HandleInit \/ AddTx \/ TxRejected

TxSpec == TxInit /\ [][TxNext]_vars

\* ---------------------------------------------------------- construction
\* Processor.__init__: the environment is validated, the manifest is loaded
\* and the table list is resolved.  A variable that is unset or empty is not
\* in env.
CommonRequired == {{"AWS_MANIFEST_LOCATION"}}

\* _get_aws_source_vars: each value is the scoped variable or, failing
\* that, the unscoped one.
SourceRequired ==
  {{"AWS_SOURCE_REGION", "AWS_REGION"},
   {"AWS_SOURCE_ACCESS_KEY_ID", "AWS_ACCESS_KEY_ID"},
   {"AWS_SOURCE_SECRET_ACCESS_KEY", "AWS_SECRET_ACCESS_KEY"}}

\* The Azure pair, or _get_aws_target_vars.
TargetRequired(target_cloud) ==
  IF target_cloud = "azure"
  THEN {{"AZURE_STORAGE_ACCOUNT_NAME"}, {"AZURE_STORAGE_ACCOUNT_CONTAINER"}}
  ELSE {{"AWS_TARGET_S3_BUCKET", "AWS_S3_BUCKET"},
        {"AWS_TARGET_REGION", "AWS_REGION"},
        {"AWS_TARGET_ACCESS_KEY_ID", "AWS_ACCESS_KEY_ID"},
        {"AWS_TARGET_SECRET_ACCESS_KEY", "AWS_SECRET_ACCESS_KEY"}}

\* os.environ.get(scoped) or os.environ.get(unscoped)
Present(env, alternatives) == \E v \in alternatives : v \in env

\* Variant: only the target variables are checked.
MissingVars_TargetOnly(env, target_cloud) ==
  {a \in TargetRequired(target_cloud) : ~Present(env, a)}

\* missing_vars of _validate_environment.
MissingVars(env, target_cloud) ==
  {a \in CommonRequired \cup SourceRequired \cup TargetRequired(target_cloud) :
     ~Present(env, a)}

\* _validate_environment: the exception it raises, "" for none.
ValidateEnvironment(env, target_cloud) ==
  IF target_cloud \notin {"azure", "aws"} THEN "ValueError"
  ELSE IF MissingVars(env, target_cloud) # {} THEN "EnvironmentError"
  ELSE ""

EnvVars ==
  UNION (CommonRequired \cup SourceRequired \cup TargetRequired("azure")
         \cup TargetRequired("aws"))

\* The environments tried: every variable set but at most two.
EnvChoices == {EnvVars \ {a, b} : a, b \in EnvVars \cup {"none"}}

\* The manifest document: tables "t" and "u", one record each.
Document ==
  [k \in {"t", "u"} |->
     <<[SupEntry EXCEPT !.dataFilesPath = S3Scheme \o <<"b", "/", k, "/">>]>>]

\* Variant: the document is kept whole.
Initialize_Unfiltered(document, table_names) == document

\* Manifest._initialize: table_names is <<>> for None, <<names>> otherwise.
Initialize(document, table_names) ==
  IF table_names # <<>> /\ table_names[1] # <<>>
  THEN LET given == {table_names[1][i] : i \in 1..Len(table_names[1])}
       IN  [k \in DOMAIN document \cap given |-> document[k]]
  ELSE document

\* Variant: no copy is taken, json_object is the held entry itself.
Copy_Alias(obj) == [held |-> TRUE, value |-> obj]

\* dict.copy(): a new top-level dictionary with the same items.
Copy(obj) == [held |-> FALSE, value |-> obj]

\* json_object["entry"] = entry
WithEntry(obj, entry) ==
  [f \in DOMAIN obj \cup {"entry"} |-> IF f = "entry" THEN entry ELSE obj[f]]

\* Manifest.read on the loaded manifest m: the value returned (<<>> for
\* None) and the manifest as the call leaves it.
ReadCall(m, entry) ==
  IF entry \notin DOMAIN m \/ m[entry] = <<>>
  THEN [value |-> <<>>, manifest |-> m]
  ELSE LET json_object == Copy(m[entry][1])
           written == WithEntry(json_object.value, entry)
       IN  [value |-> <<written>>,
            manifest |-> IF json_object.held
                         THEN [m EXCEPT ![entry] = <<written>>] ELSE m]

\* The value Manifest.read returns.
Read(m, entry) == ReadCall(m, entry).value

\* Manifest.get_table_names, in the order of the document's keys.
GetTableNames(m) ==
  SelectSeq(<<"t", "u">>, LAMBDA k : k \in DOMAIN m)

\* Variant: the exclusions are taken off a caller's list too.
ResolveTableNames_AlwaysExcludes(m, table_names, exceptions) ==
  LET names == IF table_names = <<>> THEN GetTableNames(m)
               ELSE table_names[1]
  IN  IF exceptions # <<>>
      THEN SelectSeq(names, LAMBDA n : n \notin exceptions[1])
      ELSE names

\* The table list of Processor.__init__.
ResolveTableNames(m, table_names, exceptions) ==
  IF table_names = <<>>
  THEN IF exceptions # <<>>
       THEN SelectSeq(GetTableNames(m), LAMBDA n : n \notin exceptions[1])
       ELSE GetTableNames(m)
  ELSE table_names[1]

\* What a caller may pass: None or a tuple of names; None or exclusions.
GivenNames ==
  {<<>>, << <<>> >>, << <<"t">> >>, << <<"t", "ghost">> >>,
   << <<"u", "t">> >>}

GivenExceptions == {<<>>, <<{}>>, <<{"t"}>>, <<{"u", "ghost"}>>}

ConfigInit ==
  /\ clock = StartTime
  /\ manifest = SupEntry
  /\ src = SupTree
  /\ log = <<>>
  /\ pc = "idle"
  /\ batch = NoBatch
  /\ result = NoResult
  /\ runs = <<>>
  /\ sup = NoSup

\* Processor(target_cloud, table_names, parallel, exceptions).
SupConstruct ==
  /\ sup.phase = "none"
  /\ \E env \in EnvChoices, target_cloud \in {"azure", "aws", "gcp"},
        table_names \in GivenNames, exceptions \in GivenExceptions :
       LET error == ValidateEnvironment(env, target_cloud)
           m == Initialize(Document, table_names)
           args == [env |-> env, target_cloud |-> target_cloud,
                    given |-> table_names, exceptions |-> exceptions,
                    read |-> <<>>]
       IN  sup' = IF error # ""
                  THEN args @@ [phase |-> "raised", error |-> error,
                                manifest |-> <<>>, table_names |-> <<>>]
                  ELSE args @@ [phase |-> "constructed", error |-> "",
                                manifest |-> <<m>>,
                                table_names |->
                                  ResolveTableNames(m, table_names, exceptions)]
  /\ UNCHANGED <<clock, manifest, src, log, pc, batch, result, runs>>

\* manifest.read(entry) on the constructed Processor's manifest.
SupRead ==
  /\ sup.phase = "constructed"
  /\ \E entry \in {"t", "u", "ghost"} :
       sup' = [sup EXCEPT
                 !.read = <<[entry |-> entry,
                             value |-> Read(sup.manifest[1], entry)]>>,
                 !.manifest = <<ReadCall(sup.manifest[1], entry).manifest>>]
  /\ UNCHANGED <<clock, manifest, src, log, pc, batch, result, runs>>

ConfigNext == SupConstruct \/ SupRead

ConfigSpec == ConfigInit /\ [][ConfigNext]_vars

\* --------------------------------------------------------- two tables
\* A Processor over the tables "t" and "u".  Each table has its own manifest
\* entry, source tree and Delta log; log, manifest, pc, batch and result are
\* those of the task in focus, the other tasks keep theirs in ctx.
ParRoot == <<"b", "/", "u">>

ParEntry(table_name) ==
  IF table_name = "t" THEN SupEntry
  ELSE [SupEntry EXCEPT !.dataFilesPath = S3Scheme \o ParRoot \o <<"/">>,
                        !.lastSuccessfulWriteTimestamp = Str(9)]

ParTree ==
  SupTree \cup
  {[dir |-> EpochUri(ParRoot, SupKey), type |-> "Directory",
    base_name |-> Str(w), files |-> GoodFiles] : w \in {8, 9}}

\* table_names with pairwise distinct names.
ParLists == {<<"t", "u">>, <<"u", "t">>, <<"u">>}

\* What a task works on.
World ==
  [pc |-> pc, batch |-> batch, result |-> result, log |-> log,
   manifest |-> manifest]

\* A task before process_table is called for it: its table does not exist.
ParTask(table_name) ==
  [NoTask EXCEPT
     !.ctx = <<[pc |-> "idle", batch |-> NoBatch, result |-> NoResult,
                log |-> <<>>, manifest |-> ParEntry(table_name)]>>]

ParInit ==
  /\ clock = StartTime
  /\ manifest = SupEntry
  /\ src = ParTree
  /\ log = <<>>
  /\ pc = "idle"
  /\ batch = NoBatch
  /\ result = NoResult
  /\ runs = <<>>
  /\ \E table_names \in ParLists, parallel \in BOOLEAN :
       sup = [target_cloud |-> "azure", table_names |-> table_names,
              parallel |-> parallel, phase |-> "constructed", current |-> 0,
              tasks |-> [i \in 1..Len(table_names) |->
                           ParTask(table_names[i])],
              results |-> <<>>, order |-> <<>>]

\* The task in focus leaves the processor with its world.
ParParked(s) ==
  IF s.current = 0 THEN s
  ELSE [s EXCEPT !.tasks[s.current].ctx = <<World>>]

\* Variant: the tables share one Delta log.
Loaded_SharedLog(ctx) == [ctx EXCEPT !.log = log]

\* The world a task finds when it gets the processor: its own table.
Loaded(ctx) == ctx

\* Task i gets the processor: the next table of the for loop, or a Ray
\* worker that is scheduled.
ParSwitch(i) ==
  /\ sup.phase = "running"
  /\ sup.current # i
  /\ sup.tasks[i].status \in {"pending", "active"}
  /\ MayStart(i)
  /\ sup.parallel \/ sup.current = 0
  /\ LET ctx == Loaded(sup.tasks[i].ctx[1])
     IN  /\ pc' = ctx.pc
         /\ batch' = ctx.batch
         /\ result' = ctx.result
         /\ log' = ctx.log
         /\ manifest' = ctx.manifest
  /\ sup' = [ParParked(sup) EXCEPT !.current = i, !.tasks[i].ctx = <<>>]
  /\ UNCHANGED <<clock, src, runs>>

\* process_table(entry) for task i: manifest.read finds the entry and the
\* Batch is constructed.
ParStart(i) ==
  /\ sup.phase = "running"
  /\ sup.current = i
  /\ sup.tasks[i].status = "pending"
  /\ Construct(sup.table_names[i], sup.target_cloud, FALSE, FALSE)
  /\ sup' = [sup EXCEPT !.order = Append(@, i),
                        !.tasks[i].status = "active",
                        !.tasks[i].run = Len(runs) + 1]
  /\ UNCHANGED <<clock, manifest, src>>

\* Batch(...) raises for task i: the except branch of process_table.
ParStartFails(i) ==
  /\ sup.phase = "running"
  /\ sup.current = i
  /\ sup.tasks[i].status = "pending"
  /\ sup' = [Collected([ParParked(sup) EXCEPT !.order = Append(@, i)], i,
                       TaskFails(ParParked(sup).tasks[i]))
             EXCEPT !.current = 0]
  /\ UNCHANGED <<clock, manifest, src, log, pc, batch, result, runs>>

\* process_batch has returned: process_table returns its Result.
ParReturn ==
  /\ sup.phase = "running"
  /\ sup.current # 0
  /\ sup.tasks[sup.current].status = "active"
  /\ pc = "done"
  /\ sup' = [Collected(sup, sup.current,
                       [ParParked(sup).tasks[sup.current] EXCEPT
                          !.status = "returned",
                          !.failed = runs[Run].raised # <<>>,
                          !.ret = <<result>>])
             EXCEPT !.current = 0]
  /\ UNCHANGED <<clock, manifest, src, log, pc, batch, result, runs>>

ParNext ==
  \/ SupRun
  \/ \E i \in 1..Len(sup.tasks) : ParSwitch(i)
  \/ \E i \in 1..Len(sup.tasks) : ParStart(i)
  \/ \E i \in 1..Len(sup.tasks) : ParStartFails(i)
  \/ InFocus /\ ProcessBatch
  \/ InFocus /\ ListEpoch
  \/ InFocus /\ ListEpochFails
  \/ InFocus /\ ProcessFolder
  \/ InFocus /\ ListFolderFails
  \/ InFocus /\ CommitFails
  \/ InFocus /\ EndEpoch
  \/ ParReturn
  \/ SupFinish
  \/ RunRaises

ParSpec == ParInit /\ [][ParNext]_vars

\* ------------------------------------------------------------- properties
\* Reading the table and the history.
WatermarkOf(c) == ParseInt(c.meta.watermark)
SchemaTimestampOf(c) == ParseInt(c.meta.schema_timestamp)

\* Indices of the commits that run r wrote, and those it wrote for epoch st.
CommitsOf(r) == {i \in 1..Len(log) : log[i].run = r}
CommitsOfEpoch(r, st) == {i \in CommitsOf(r) : SchemaTimestampOf(log[i]) = st}
ByProcessor == {i \in 1..Len(log) : log[i].run >= 1}

PairLess(c, d) ==
  \/ SchemaTimestampOf(c) < SchemaTimestampOf(d)
  \/ /\ SchemaTimestampOf(c) = SchemaTimestampOf(d)
     /\ WatermarkOf(c) < WatermarkOf(d)

Returned(r) == r < Len(runs) \/ (r = Len(runs) /\ pc = "done")

\* The numeric timestamp directories of the epoch at uri in a source tree.
PartitionsIn(tree, uri) ==
  {d \in tree : d.dir = uri /\ d.type = "Directory" /\ IsInt(d.base_name)}

\* C1: the (schema_timestamp, watermark) pairs of the successive commits that
\* BatchProcessor runs write to the table are lexicographically strictly
\* increasing.
C1_MonotoneCommits ==
  \A i, j \in ByProcessor : i < j => PairLess(log[i], log[j])

\* C6: within one epoch in one run the timestamp partitions are committed in
\* ascending numeric order of their directory names.
C6_AscendingNumericOrder ==
  \A r \in 1..Len(runs) : \A i, j \in CommitsOf(r) :
    (i < j /\ SchemaTimestampOf(log[i]) = SchemaTimestampOf(log[j]))
      => WatermarkOf(log[i]) < WatermarkOf(log[j])

\* C2: when a run has returned and a second run then works on the same source
\* tree and manifest, the second run makes no commit (stated for runs that
\* meet no storage failure).
C2_SecondRunCommitsNothing ==
  \A r \in 2..Len(runs) :
    ( /\ Returned(r)
      /\ runs[r - 1].faults = 0
      /\ runs[r].faults = 0
      /\ runs[r].src = runs[r - 1].src
      /\ runs[r].manifest = runs[r - 1].manifest )
    => CommitsOf(r) = {}

\* The epochs of a manifest entry whose timestamp is st.
EpochsAt(entry, st) ==
  {i \in 1..Len(entry.schemaHistory) : ParseInt(entry.schemaHistory[i][2]) = st}

\* Run r starts inside epoch st: the recovered watermark is a partition of
\* an epoch whose timestamp is the recovered schema_timestamp.
StartsInside(r) ==
  \E i \in EpochsAt(runs[r].manifest, runs[r].low_schema_timestamp) :
    \E d \in PartitionsIn(runs[r].src,
                          EpochUri(SourceRoot, runs[r].manifest.schemaHistory[i][1])) :
      ParseInt(d.base_name) = runs[r].low_watermark

First(S) == CHOOSE i \in S : \A j \in S : i <= j

\* C3: when a run starts inside a partly committed epoch E and commits
\* partitions of E, its first commit of E has mode append and every commit it
\* makes for E has a watermark above the recovered one.
C3_PartialEpochAppend ==
  \A r \in 1..Len(runs) :
    LET cs == CommitsOfEpoch(r, runs[r].low_schema_timestamp)
    IN  (StartsInside(r) /\ cs # {})
        => /\ log[First(cs)].mode = "append"
           /\ \A i \in cs : WatermarkOf(log[i]) > runs[r].low_watermark

C3_Witness ==
  \E r \in 1..Len(runs) :
    /\ StartsInside(r)
    /\ CommitsOfEpoch(r, runs[r].low_schema_timestamp) # {}

\* The first commit that run r makes for the epoch of commit i.
FirstOfEpoch(i) ==
  /\ log[i].run >= 1
  /\ \A j \in 1..(i - 1) :
       log[j].run = log[i].run
         => SchemaTimestampOf(log[j]) # SchemaTimestampOf(log[i])

\* No earlier run left a commit for the epoch of commit i.
FreshEpoch(i) ==
  \A j \in 1..(i - 1) :
    log[j].run < log[i].run
      => SchemaTimestampOf(log[j]) # SchemaTimestampOf(log[i])

\* C4: when the table holds no commit of epoch E as a run comes to E, the
\* first commit the run makes for E has mode overwrite.
C4_FreshEpochOverwrite ==
  \A i \in 1..Len(log) :
    (FirstOfEpoch(i) /\ FreshEpoch(i)) => log[i].mode = "overwrite"

\* A fresh epoch committed into a table that already exists.
C4_Witness ==
  \E i \in 1..Len(log) :
    FirstOfEpoch(i) /\ FreshEpoch(i) /\ log[i].operation = "WRITE"

\* C5: the epochs are handed to _process_schema_history in ascending order of
\* their integer timestamp, whatever the order of the keys; the plan is the
\* selected epochs in that order.
C5_EpochOrder ==
  /\ \A r \in 1..Len(runs) : \A i, j \in 1..Len(runs[r].listed) :
       i < j => runs[r].listed[i].schema_timestamp
                  <= runs[r].listed[j].schema_timestamp
  /\ pc \in {"epoch", "folders"} =>
       LET plan == batch.schema_history_list
           sh == batch.entry.schemaHistory
       IN  /\ \A i, j \in 1..Len(plan) :
                i < j => plan[i].schema_timestamp <= plan[j].schema_timestamp
           /\ {plan[i].key : i \in 1..Len(plan)}
                = {sh[i][1] : i \in {k \in 1..Len(sh) :
                     ParseInt(sh[k][2]) >= batch.watermark_schema_timestamp}}
           /\ \A i \in 1..Len(runs[Run].listed) : runs[Run].listed[i] = plan[i]

\* A run went through two epochs whose key order, as strings and as
\* numbers, and whose order in the manifest differ from the timestamp order.
C5_Witness ==
  \E r \in 1..Len(runs) :
    /\ Len(runs[r].listed) = 2
    /\ runs[r].listed[1].key = <<"2">>
    /\ runs[r].listed[2].key = <<"1", "0">>
    /\ runs[r].manifest.schemaHistory[1][1] = <<"1", "0">>

\* The state in which process_batch of the current run has returned.
Done == pc = "done" /\ runs # <<>>

\* An epoch directory in which every timestamp partition holds a readable
\* parquet file.
AllReadable(tree, uri) ==
  \A d \in PartitionsIn(tree, uri) :
    \E i \in 1..Len(d.files) : d.files[i].ext = "parquet" /\ d.files[i].readable

InSeq(x, s) == \E i \in 1..Len(s) : s[i] = x

\* C7: when an epoch directory holds a sub-directory whose name is not an
\* integer, the run (meeting no storage failure) still commits every numeric
\* partition of the epoch above the low watermark, never commits the
\* non-numeric name, and records no error.
C7_NonNumericSkipped ==
  Done =>
    \A k \in 1..Len(runs[Run].listed) :
      LET uri == runs[Run].listed[k].uri
          tree == runs[Run].src
      IN  ( /\ runs[Run].faults = 0
            /\ \E d \in tree : d.dir = uri /\ ~IsInt(d.base_name)
            /\ AllReadable(tree, uri) )
          => /\ result.errors = <<>>
             /\ \A d \in PartitionsIn(tree, uri) :
                  ParseInt(d.base_name) > batch.low_watermark
                    => InSeq(ParseInt(d.base_name), result.watermarks)

\* The timestamp partitions of a whole source tree, as (epoch timestamp,
\* partition value) pairs, for a manifest entry.
AllPartitions(entry, tree) ==
  UNION {{<<ParseInt(entry.schemaHistory[i][2]), ParseInt(d.base_name)>> :
            d \in PartitionsIn(tree, EpochUri(SourceRoot, entry.schemaHistory[i][1]))} :
         i \in 1..Len(entry.schemaHistory)}

\* A run on a table that did not exist, over epochs that each hold at least
\* one partition, all partitions readable, no other directory, no failure.
FullFreshRun ==
  /\ Done
  /\ ~runs[Run].existed
  /\ runs[Run].faults = 0
  /\ \A d \in runs[Run].src : IsInt(d.base_name)
  /\ \A i \in 1..Len(runs[Run].manifest.schemaHistory) :
       LET uri == EpochUri(SourceRoot, runs[Run].manifest.schemaHistory[i][1])
       IN  PartitionsIn(runs[Run].src, uri) # {} /\ AllReadable(runs[Run].src, uri)
  /\ runs[Run].manifest.schemaHistory # <<>>

\* C8: a full run on a table that does not exist yet commits, epoch by epoch
\* in timestamp order, the lowest partition with overwrite and each further
\* partition in ascending order with append; the last commit carries the
\* highest partition of the last epoch; Result.watermarks and
\* Result.schema_timestamps list the commits and the epochs in order.
C8_FullRunSequence ==
  FullFreshRun =>
    /\ {<<SchemaTimestampOf(log[i]), WatermarkOf(log[i])>> : i \in 1..Len(log)}
         = AllPartitions(runs[Run].manifest, runs[Run].src)
    /\ \A i, j \in 1..Len(log) : i < j => PairLess(log[i], log[j])
    /\ \A i \in 1..Len(log) :
         log[i].mode = IF FirstOfEpoch(i) THEN "overwrite" ELSE "append"
    /\ result.watermarks = [i \in 1..Len(log) |-> WatermarkOf(log[i])]
    /\ \A i, j \in 1..Len(result.schema_timestamps) :
         i < j => result.schema_timestamps[i] < result.schema_timestamps[j]
    /\ {result.schema_timestamps[i] : i \in 1..Len(result.schema_timestamps)}
         = {SchemaTimestampOf(log[i]) : i \in 1..Len(log)}

\* C9: with the sentinel watermark -1 in the last commit, process_batch makes
\* no commit, lists no source directory, records exactly one error and
\* returns with process_finish_watermark = -1.
C9_CorruptWatermark ==
  (Done /\ runs[Run].low_watermark = 0 - 1) =>
    /\ CommitsOf(Run) = {}
    /\ runs[Run].listed = <<>>
    /\ runs[Run].faults = 0
    /\ Len(result.errors) = 1
    /\ result.process_finish_time
    /\ result.process_finish_watermark = <<0 - 1>>

\* A run has returned from a table whose upstream has data to offer.
C9_Witness ==
  /\ Done
  /\ runs[Run].low_watermark = 0 - 1
  /\ runs[Run].manifest.schemaHistory # <<>>
  /\ ParseInt(runs[Run].manifest.lastSuccessfulWriteTimestamp) > 0

\* C10: when lastSuccessfulWriteTimestamp is at most the recovered low
\* watermark, process_batch makes no commit, records exactly one warning and
\* no error, and returns with process_finish_watermark = low watermark.
C10_NothingNew ==
  ( /\ Done
    /\ ParseInt(runs[Run].manifest.lastSuccessfulWriteTimestamp)
         <= runs[Run].low_watermark )
  => /\ CommitsOf(Run) = {}
     /\ Len(result.warnings) = 1
     /\ result.errors = <<>>
     /\ result.process_finish_watermark = <<runs[Run].low_watermark>>

\* The upstream's latest write is the partition the table already holds.
C10_Witness ==
  /\ Done
  /\ runs[Run].low_watermark > 0
  /\ ParseInt(runs[Run].manifest.lastSuccessfulWriteTimestamp)
       = runs[Run].low_watermark

\* C11: when an exception leaves an epoch (the epoch listing fails, no
\* schema is found, or a commit fails), the run makes no further commit, the
\* table is left as it was when the exception was raised, and process_batch
\* returns the Result with an error recorded and process_finish_time set.
C11_FailureIsolation ==
  \A r \in 1..Len(runs) :
    runs[r].raised # <<>> =>
      /\ \A i \in CommitsOf(r) :
           i <= Len(runs[r].raised[1]) /\ log[i] = runs[r].raised[1][i]
      /\ r = Run =>
           /\ pc = "done"
           /\ log = runs[r].raised[1]
           /\ result.errors # <<>>
           /\ result.process_finish_time

\* A run was abandoned after it had made a commit, with an epoch still ahead.
C11_Witness ==
  /\ runs # <<>>
  /\ runs[Run].raised # <<>>
  /\ CommitsOf(Run) # {}
  /\ batch.item < Len(batch.schema_history_list)

\* The parquet files of the partition the schema was last resolved from, and
\* the size and readability of one of them.
SchemaCallFiles ==
  GetParquetList(batch.schema_call[1].uri, batch.schema_call[1].folder)

SizeAt(path) ==
  LET i == CHOOSE i \in 1..Len(SchemaCallFiles) :
             SchemaCallFiles[i].relative_path = path
  IN  SchemaCallFiles[i].size

\* C16: _schema_finder reads the footers of the first partition's parquet
\* files in non-decreasing size order and stops at the first readable one,
\* which gives the schema; it fails only when every file is unreadable, and
\* when some file is readable the partition is committed with all its files
\* (unless the storage rejects the commit).
C16_SchemaResolution ==
  batch.schema_call # <<>> =>
    LET tried == batch.schema_call[1].tried
        all == {SchemaCallFiles[i].relative_path : i \in 1..Len(SchemaCallFiles)}
        readable == {p \in all : GetParquetSchema(p)}
        n == Len(tried)
    IN  /\ \A i, j \in 1..n : i < j => SizeAt(tried[i]) <= SizeAt(tried[j])
        /\ \A i, j \in 1..n : i < j => tried[i] # tried[j]
        /\ \A i \in 1..n : tried[i] \in all
        /\ \A p \in all : \A i \in 1..n :
             InSeq(p, tried) \/ SizeAt(tried[i]) <= SizeAt(p)
        /\ \A i \in 1..(n - 1) : tried[i] \notin readable
        /\ IF readable = {}
           THEN /\ batch.cached_schema = <<>>
                /\ {tried[i] : i \in 1..n} = all
                /\ runs[Run].raised # <<>>
                /\ InSeq("schema not found", result.errors)
           ELSE /\ batch.cached_schema = <<tried[n]>>
                /\ tried[n] \in readable
                /\ ~InSeq("schema not found", result.errors)
                /\ runs[Run].raised = <<>> =>
                     \E i \in CommitsOf(Run) :
                       /\ WatermarkOf(log[i]) = ParseInt(batch.schema_call[1].folder)
                       /\ {log[i].actions[k].path : k \in 1..Len(log[i].actions)}
                            = {S3Scheme \o p : p \in all}

\* The smallest file of the first partition was unreadable and the partition
\* was committed on the schema of a larger one.
C16_Witness ==
  /\ batch.schema_call # <<>>
  /\ Len(batch.schema_call[1].tried) = 2
  /\ batch.cached_schema = <<batch.schema_call[1].tried[2]>>
  /\ \E i \in CommitsOf(Run) :
       WatermarkOf(log[i]) = ParseInt(batch.schema_call[1].folder)

\* C17: within one run, every commit of an epoch after the run's first commit
\* of that epoch has mode append, so a run makes at most one overwrite commit
\* per epoch.
C17_LaterCommitsAppend ==
  /\ \A i \in ByProcessor : ~FirstOfEpoch(i) => log[i].mode = "append"
  /\ \A i, j \in ByProcessor :
       ( /\ log[i].run = log[j].run
         /\ SchemaTimestampOf(log[i]) = SchemaTimestampOf(log[j])
         /\ log[i].mode = "overwrite"
         /\ log[j].mode = "overwrite" ) => i = j

\* A run overwrote with the first partition of an epoch and went on to
\* commit a further partition of it.
C17_Witness ==
  \E i, j \in ByProcessor :
    /\ i < j
    /\ log[i].run = log[j].run
    /\ SchemaTimestampOf(log[i]) = SchemaTimestampOf(log[j])
    /\ log[i].mode = "overwrite"
    /\ log[j].mode = "append"

\* run() has returned normally.
SupReturned == sup.phase = "returned"

\* C12: after Processor.run(), results holds one entry per table of
\* table_names, every entry is a Result, and the entry of a table whose
\* processing failed (no manifest entry, Batch construction raised, the run
\* was abandoned) carries an error.
C12_OneResultPerTable ==
  SupReturned =>
    /\ Len(sup.results) = Len(sup.table_names)
    /\ \A i \in 1..Len(sup.results) :
         /\ sup.results[i] # <<>>
         /\ sup.tasks[i].failed => sup.results[i][1].errors # <<>>

\* C13: in sequential mode the tables are started in table_names order, one
\* at a time; whatever fails in a table, the next tables are still processed,
\* run() does not raise, and it returns only when every table was handled.
C13_SequentialIsolation ==
  ~sup.parallel =>
    /\ sup.order = [k \in 1..Len(sup.order) |-> k]
    /\ \A i \in 1..Len(sup.tasks) :
         sup.tasks[i].status # "pending" =>
           \A j \in 1..(i - 1) : sup.tasks[j].status = "returned"
    /\ sup.phase # "raised"
    /\ sup.phase = "running" =>
         \/ \E i \in 1..Len(sup.tasks) :
              sup.tasks[i].status = "pending" /\ MayStart(i)
         \/ sup.current # 0 /\ pc \in {"constructed", "epoch", "folders", "done"}
         \/ \A i \in 1..Len(sup.tasks) : sup.tasks[i].status = "returned"
    /\ SupReturned =>
         /\ Len(sup.order) = Len(sup.table_names)
         /\ Len(sup.results) = Len(sup.table_names)

\* A sequential run in which the first table failed in the construction of
\* its Batch and the second one was processed and committed.
C13_Witness ==
  /\ ~sup.parallel
  /\ SupReturned
  /\ Len(sup.tasks) >= 2
  /\ sup.tasks[1].failed
  /\ sup.table_names[1] = "t"
  /\ sup.results[1] = <<>>
  /\ sup.results[2] # <<>>
  /\ sup.results[2][1].watermarks # <<>>

\* C14: at no time are two Batch objects active on the same Delta table.
C14_SingleWriter ==
  \A i, j \in 1..Len(sup.tasks) :
    ( /\ sup.tasks[i].status = "active"
      /\ sup.tasks[j].status = "active"
      /\ LogUri(sup.target_cloud, sup.table_names[i])
           = LogUri(sup.target_cloud, sup.table_names[j]) )
    => i = j

\* The source paths of all parquet files of the tree.
SourcePaths ==
  UNION {{FilePath(d, d.files[i]) : i \in 1..Len(d.files)} : d \in src}

\* C20: every Add action of every commit has data_change = false, no
\* partition values and stats "{}", and its path is "s3://" followed by the
\* path of a source file, on Azure as on AWS.
C20_AddActions ==
  \A i \in ByProcessor : \A k \in 1..Len(log[i].actions) :
    LET a == log[i].actions[k]
    IN  /\ a.data_change = FALSE
        /\ a.partition_values = <<>>
        /\ a.stats = "{}"
        /\ \E p \in SourcePaths : a.path = S3Scheme \o p

\* A commit with Add actions was written to a table on Azure.
C20_Witness ==
  /\ sup.target_cloud = "azure"
  /\ \E i \in ByProcessor :
       /\ Len(log[i].actions) >= 2
       /\ batch.log_uri[1] = "abfss://"

\* A commit as the table records it, without the run that wrote it.
Content(c) ==
  [operation |-> c.operation, mode |-> c.mode, meta |-> c.meta,
   actions |-> c.actions]

Contents(s) == [i \in 1..Len(s) |-> Content(s[i])]

\* The table as run r left it.
TableAfter(r) == IF r < Len(runs) THEN runs[r + 1].start ELSE log

\* C15: a run with reset=true on an existing table makes the same commits
\* (creation, modes, watermarks, schema timestamps, files), leaves the same
\* table and has the same Result start fields (0 and 0) as a run on a table
\* that never existed, for the same source data (no storage failure in
\* either run).
C15_ResetEqualsFresh ==
  \A f, r \in 1..Len(runs) :
    ( /\ Returned(f) /\ Returned(r)
      /\ ~runs[f].existed
      /\ runs[r].reset /\ runs[r].existed
      /\ runs[f].src = runs[r].src
      /\ runs[f].manifest = runs[r].manifest
      /\ runs[f].faults = 0 /\ runs[r].faults = 0 )
    => /\ Contents(runs[r].commits) = Contents(runs[f].commits)
       /\ Contents(TableAfter(r)) = Contents(TableAfter(f))
       /\ runs[r].low_watermark = 0
       /\ runs[r].start_version = 0
       /\ runs[f].low_watermark = 0
       /\ runs[f].start_version = 0

\* One commit was made by this step.
Committed == log' # log /\ log' # <<>>

\* C19: a commit creates the table exactly when no table exists at commit
\* time; the creating commit is the table's only commit and carries the
\* given metadata and files; a commit to an existing table is a write
\* transaction appended to it, never a creation that replaces it.
C19_CreateIffAbsent ==
  [][Committed =>
       LET c == log'[Len(log')]
       IN  /\ (log = <<>>) <=> (c.operation = "CREATE")
           /\ log = <<>> =>
                /\ log' = <<c>>
                /\ c.meta = [watermark |-> Str(FolderStep.timestamp_value),
                             schema_timestamp |-> Str(Item.schema_timestamp)]
                /\ c.actions = [k \in 1..Len(FolderStep.parquets) |->
                                  AddAction(FolderStep.parquets[k])]
           /\ log # <<>> => log' = Append(log, c) /\ c.operation = "WRITE"]_vars

\* The integers as str() writes them.
Canonical == {Str(n) : n \in (0 - 1)..(MaxTime + 2)}

\* The value recovered for key is the integer written under it in the
\* latest commit, 0 when the key is missing.
RecoveredIs(value, key) ==
  LET latest == log[Len(log)]
  IN  IF "meta" \in DOMAIN latest /\ key \in DOMAIN latest.meta
      THEN Str(value) = latest.meta[key]
      ELSE value = 0

\* Some metadata of the latest commit is not an integer.
Malformed ==
  LET latest == log[Len(log)]
  IN  /\ "meta" \in DOMAIN latest
      /\ \E key \in DOMAIN latest.meta : latest.meta[key] \notin Canonical

\* C18: watermark recovery never raises: (0, 0) when no table is bound;
\* otherwise the integers under watermark and schema_timestamp of the latest
\* commit, 0 for a missing key; (0, 0) with a warning when the metadata is
\* malformed or the history cannot be read.
C18_RecoveryNeverRaises ==
  pc = "recovered" =>
    LET out == batch.watermark_info
        zero == out.watermark = 0 /\ out.schema_timestamp = 0
    IN  /\ ~out.raised
        /\ batch.delta_log = <<>> => zero /\ ~out.warned
        /\ batch.delta_log # <<>> =>
             IF batch.read.raised \/ Malformed
             THEN zero /\ out.warned
             ELSE /\ ~out.warned
                  /\ RecoveredIs(out.watermark, "watermark")
                  /\ RecoveredIs(out.schema_timestamp, "schema_timestamp")

\* A bound table whose history was read and whose latest commit carries
\* malformed metadata: recovery warned and returned (0, 0).
C18_Witness ==
  /\ pc = "recovered"
  /\ batch.delta_log # <<>>
  /\ ~batch.read.raised
  /\ Malformed
  /\ batch.watermark_info.warned
  /\ batch.watermark_info.watermark = 0

\* The partition a commit belongs to, named as the loop names it.
PartitionOf(c) == <<SchemaTimestampOf(c), c.meta.watermark>>

C29_ListingFailureSkips ==
  /\ [](\A r \in 1..Len(runs) :
          \A k \in 1..Len(runs[r].skipped) :
            \A i \in 1..Len(runs[r].commits) :
              PartitionOf(runs[r].commits[i]) # runs[r].skipped[k])
  /\ [][(pc = "folders"
          /\ Len(runs'[Run].skipped) > Len(runs[Run].skipped))
        => /\ result' = result
           /\ log' = log
           /\ pc' = "folders"
           /\ batch'.folders = Tail(batch.folders)
           /\ batch'.first_folder_for_schema = batch.first_folder_for_schema]_vars

\* A run skipped the first partition of an epoch on a new table and then
\* created the table from the next partition with an overwrite.
C29_Witness ==
  \E r \in 1..Len(runs) :
    /\ Returned(r)
    /\ ~runs[r].existed
    /\ runs[r].skipped # <<>>
    /\ runs[r].commits # <<>>
    /\ runs[r].commits[1].mode = "overwrite"
    /\ runs[r].skipped[1][1] = SchemaTimestampOf(runs[r].commits[1])
    /\ ParseInt(runs[r].skipped[1][2]) < WatermarkOf(runs[r].commits[1])
    /\ runs[r].raised = <<>>

\* The entry has no dataFilesPath or no schemaHistory: absent, or empty
\* once the scheme is taken off.
EntryIncomplete(entry) ==
  \/ MissingKey(entry)
  \/ Lstrip(entry.dataFilesPath, {"s", "3", ":", "/"}) = <<>>
  \/ entry.schemaHistory = <<>>

\* C30: a run whose entry has no dataFilesPath or no schemaHistory (and
\* that passes the sentinel and the freshness checks) ends by returning the
\* Result, not by raising: no commit, an error in the Result, and
\* process_finish_watermark equal to the low watermark.
C30_MissingEntrySkips ==
  ( /\ pc \in {"done", "raised"}
    /\ EntryIncomplete(batch.entry)
    /\ ~CorruptState(batch.low_watermark)
    /\ ~NothingNew(batch.entry, batch.low_watermark) )
  => /\ pc = "done"
     /\ runs[Run].commits = <<>>
     /\ result.errors # <<>>
     /\ result.process_finish_time
     /\ result.process_finish_watermark = <<batch.low_watermark>>

\* The last add_transaction call made on the handle.
LastCall == batch.last[1]

Called == pc = "handle" /\ batch.last # <<>>

\* C21: on one handle a checkpoint is created after the K-th, 2K-th, ...
\* successful commit and after no other; a checkpoint failure leaves the
\* commit successful, with its watermark on the table, and the handle goes
\* on committing.
C21_CheckpointEveryK ==
  pc = "handle" =>
    LET cp == batch.checkpoints
        K == batch.checkpoint_interval
    IN  /\ Len(cp) = batch.transaction_count
        /\ \A k \in 1..Len(cp) :
             IF k % K = 0 THEN cp[k] \in {"created", "failed"}
             ELSE cp[k] = "none"
        /\ (batch.last # <<>> /\ LastCall.checkpoint = "failed") =>
             /\ ~LastCall.raised
             /\ batch.transaction_count = LastCall.before.transaction_count + 1
             /\ log[Len(log)].meta.watermark = Str(LastCall.watermark)

\* The request is one the validation must refuse.
BadRequest(c) ==
  \/ c.mode \notin {"append", "overwrite"}
  \/ c.parquets = <<>>
  \/ \E i \in 1..Len(c.parquets) :
       LET f == c.parquets[i]
       IN  \/ "path" \notin DOMAIN f
           \/ "size" \notin DOMAIN f
           \/ "last_modified" \notin DOMAIN f
           \/ f.path = <<>>
           \/ f.size < 0
           \/ f.last_modified < 0

C28_RefreshRetriedOnce ==
  Called =>
    /\ LastCall.refresh.slept =>
         LastCall.refresh.calls = 2 /\ ~LastCall.raised
    /\ (LastCall.before.stale /\ ~LastCall.raised) => LastCall.probed

\* The handle of the run is bound to a version older than the table's
\* latest: its refresh after a write failed.
HandleBehind(b, lg) == b.delta_log # <<>> /\ b.delta_log[1] < Len(lg) - 1

\* C22: when the write transaction succeeds and the refresh of the handle
\* fails, the commit counts as successful: no exception and no error, the
\* transaction counter is incremented, the partition's watermark is recorded
\* in the Result, and the loop goes on with the next partition.
C22_RefreshFailureNonFatal ==
  [][(pc = "folders" /\ log' # log /\ HandleBehind(batch', log'))
     => /\ pc' = "folders"
        /\ batch'.transaction_count = batch.transaction_count + 1
        /\ batch'.folders = Tail(batch.folders)
        /\ result'.errors = result.errors
        /\ result'.watermarks =
             Append(result.watermarks, ParseInt(Head(batch.folders)))
        /\ result'.process_finish_watermark =
             <<ParseInt(Head(batch.folders))>>
        /\ log'[Len(log')].meta.watermark = Head(batch.folders)]_vars

\* The refresh failed after the second and after the third commit of a
\* run on a new table: the handle is still at the version it was bound to,
\* three commits were counted and three watermarks recorded.
C22_Witness ==
  /\ pc = "folders"
  /\ Len(log) = 3
  /\ batch.delta_log = <<0>>
  /\ batch.transaction_count = 3
  /\ Len(result.watermarks) = 3
  /\ result.errors = <<>>

\* A variable or its unscoped fallback is set.
Has(a, b) == a \in sup.env \/ b \in sup.env

\* Every variable the target cloud needs is set.
Configured ==
  /\ "AWS_MANIFEST_LOCATION" \in sup.env
  /\ Has("AWS_SOURCE_REGION", "AWS_REGION")
  /\ Has("AWS_SOURCE_ACCESS_KEY_ID", "AWS_ACCESS_KEY_ID")
  /\ Has("AWS_SOURCE_SECRET_ACCESS_KEY", "AWS_SECRET_ACCESS_KEY")
  /\ sup.target_cloud = "azure" =>
       /\ "AZURE_STORAGE_ACCOUNT_NAME" \in sup.env
       /\ "AZURE_STORAGE_ACCOUNT_CONTAINER" \in sup.env
  /\ sup.target_cloud = "aws" =>
       /\ Has("AWS_TARGET_S3_BUCKET", "AWS_S3_BUCKET")
       /\ Has("AWS_TARGET_REGION", "AWS_REGION")
       /\ Has("AWS_TARGET_ACCESS_KEY_ID", "AWS_ACCESS_KEY_ID")
       /\ Has("AWS_TARGET_SECRET_ACCESS_KEY", "AWS_SECRET_ACCESS_KEY")

\* C24: when a required variable is missing after the fallback, or the
\* target cloud is neither azure nor aws, the construction raises: no
\* manifest is loaded and there is no table list to process.
C24_ConfigurationAborts ==
  (sup.phase \in {"raised", "constructed"}
     /\ (sup.target_cloud \notin {"azure", "aws"} \/ ~Configured))
  => /\ sup.phase = "raised"
     /\ sup.manifest = <<>>
     /\ sup.table_names = <<>>

\* An aws target whose region is set neither scoped nor unscoped.
C24_Witness ==
  /\ sup.phase = "raised"
  /\ sup.target_cloud = "aws"
  /\ sup.error = "EnvironmentError"
  /\ sup.env = EnvVars \ {"AWS_TARGET_REGION", "AWS_REGION"}

\* The elements of a tuple.
Elements(seq) == {seq[i] : i \in 1..Len(seq)}

\* C25: the table list is the caller's tuple, or all manifest keys when
\* none was given, without the names of the exclusion set in both cases.
C25_TableListMinusExclusions ==
  sup.phase = "constructed" =>
    LET base == IF sup.given = <<>> THEN {"t", "u"}
                ELSE Elements(sup.given[1])
        excluded == IF sup.exceptions = <<>> THEN {}
                    ELSE sup.exceptions[1]
    IN  Elements(sup.table_names) = base \ excluded

\* C26: a Manifest loaded with a non-empty list of names holds exactly the
\* document's entries whose key is in the list; read(name) returns the
\* entry with the name added under "entry" for a held name, None for any
\* other.
C26_ManifestFilter ==
  (sup.phase = "constructed" /\ sup.given # <<>> /\ sup.given[1] # <<>>) =>
    LET m == sup.manifest[1]
        held == {"t", "u"} \cap Elements(sup.given[1])
    IN  /\ DOMAIN m = held
        /\ \A k \in held : m[k] = Document[k]
        /\ sup.read # <<>> =>
             LET name == sup.read[1].entry
                 value == sup.read[1].value
             IN  IF name \in held
                 THEN /\ value # <<>>
                      /\ value[1].entry = name
                      /\ DOMAIN value[1] = DOMAIN Document[name][1] \cup {"entry"}
                      /\ \A f \in DOMAIN Document[name][1] :
                           value[1][f] = Document[name][1][f]
                 ELSE value = <<>>

\* A manifest loaded for ("t", "ghost"): "u" was read and is not held.
C26_Witness ==
  /\ sup.phase = "constructed"
  /\ sup.given = << <<"t", "ghost">> >>
  /\ DOMAIN sup.manifest[1] = {"t"}
  /\ sup.read # <<>>
  /\ sup.read[1].entry = "u"
  /\ sup.read[1].value = <<>>

\* C31: every Result returned by process_batch has process_finish_time and
\* process_finish_watermark set, and process_finish_watermark is the
\* watermark of the table's latest commit.
C31_ResultFinished ==
  Done =>
    /\ result.process_finish_time
    /\ result.process_finish_watermark # <<>>
    /\ log # <<>> =>
         result.process_finish_watermark[1] = WatermarkOf(log[Len(log)])

\* Run r was not skipped by one of the checks before the epoch loop.
EntersLoop(r) ==
  /\ runs[r].low_watermark # 0 - 1
  /\ ParseInt(runs[r].manifest.lastSuccessfulWriteTimestamp) > runs[r].low_watermark

\* C32: a run lists and commits only epochs whose timestamp is at least the
\* schema_timestamp recovered from the last commit, and when the manifest
\* has the epoch of the recovered schema_timestamp the run lists it, first.
C32_EpochSelection ==
  \A r \in 1..Len(runs) :
    LET st == runs[r].low_schema_timestamp
    IN  /\ \A k \in 1..Len(runs[r].listed) :
             runs[r].listed[k].schema_timestamp >= st
        /\ \A k \in 1..Len(runs[r].commits) :
             SchemaTimestampOf(runs[r].commits[k]) >= st
        /\ (Returned(r) /\ EntersLoop(r) /\ EpochsAt(runs[r].manifest, st) # {})
             => /\ runs[r].listed # <<>>
                /\ runs[r].listed[1].schema_timestamp = st

\* A run that recovered the timestamp of the second epoch: it left the
\* first epoch alone, listed the second and committed a partition of it.
C32_Witness ==
  \E r \in 1..Len(runs) :
    /\ Returned(r)
    /\ \E i \in 1..Len(runs[r].manifest.schemaHistory) :
         ParseInt(runs[r].manifest.schemaHistory[i][2]) < runs[r].low_schema_timestamp
    /\ Len(runs[r].listed) = 1
    /\ runs[r].listed[1].schema_timestamp = runs[r].low_schema_timestamp
    /\ runs[r].commits # <<>>
    /\ runs[r].commits[1].mode = "append"

\* Epoch k of the plan of the current run has, in the tree the run started
\* on, no directory whose name is an integer above the low watermark.
NothingAbove(k) ==
  \A d \in runs[Run].src :
    (d.dir = batch.schema_history_list[k].uri /\ IsInt(d.base_name))
      => ParseInt(d.base_name) <= batch.low_watermark

\* C33: when the listed epoch has no directory whose numeric name is above
\* the low watermark, the run makes no commit for it, records no error and
\* goes on to the next epoch of the plan (or returns after the last one).
C33_EmptyEpochSkipped ==
  [][(pc = "epoch" /\ NothingAbove(batch.item)
        /\ Len(runs'[Run].listed) > Len(runs[Run].listed)
        /\ runs'[Run].faults = runs[Run].faults)
     => /\ log' = log
        /\ result'.errors = result.errors
        /\ pc' = "folders"
        /\ batch'.folders = <<>>
        /\ batch'.item = batch.item]_vars

\* The world of task i, in focus or not.
TableWorld(i) == IF sup.current = i THEN World ELSE sup.tasks[i].ctx[1]

\* A commit in short: mode, watermark, number of Add actions.
Brief(c) == <<c.mode, WatermarkOf(c), Len(c.actions)>>

\* What a sequential run without failure commits to each table and the
\* watermarks its Result lists.
SequentialCommits(table_name) ==
  IF table_name = "t" THEN << <<"overwrite", 8, 2>> >>
  ELSE << <<"overwrite", 8, 1>>, <<"append", 9, 1>> >>

SequentialWatermarks(table_name) ==
  IF table_name = "t" THEN <<8>> ELSE <<8, 9>>

\* Task i ran to the end and met no failure.
CleanTask(i) ==
  /\ sup.tasks[i].status = "returned"
  /\ sup.tasks[i].run # 0
  /\ runs[sup.tasks[i].run].faults = 0

\* C34: with pairwise distinct table names, in parallel as in sequential
\* mode and for every interleaving, a table holds only the commits of its
\* own worker, a worker that met no failure leaves the commits and the
\* Result of a sequential run whatever happened to the other workers, and
\* run() returns the results in table_names order.
C34_ParallelEqualsSequential ==
  /\ \A i \in 1..Len(sup.tasks) :
       LET w == TableWorld(i)
           name == sup.table_names[i]
       IN  /\ \A k \in 1..Len(w.log) : w.log[k].run = sup.tasks[i].run
           /\ CleanTask(i) =>
                /\ [k \in 1..Len(w.log) |-> Brief(w.log[k])]
                     = SequentialCommits(name)
                /\ sup.tasks[i].ret # <<>>
                /\ sup.tasks[i].ret[1].watermarks = SequentialWatermarks(name)
                /\ sup.tasks[i].ret[1].errors = <<>>
  /\ SupReturned =>
       /\ Len(sup.results) = Len(sup.table_names)
       /\ \A i \in 1..Len(sup.results) :
            /\ sup.results[i] = sup.tasks[i].ret
            /\ CleanTask(i) =>
                 sup.results[i][1].watermarks
                   = SequentialWatermarks(sup.table_names[i])

\* A parallel run over ("u", "t"): the worker of "u" started first and was
\* abandoned after its first commit, the worker of "t" started before that
\* and returned after it, complete.
C34_Witness ==
  /\ sup.parallel
  /\ SupReturned
  /\ sup.table_names = <<"u", "t">>
  /\ sup.order = <<1, 2>>
  /\ sup.tasks[1].failed
  /\ Len(TableWorld(1).log) = 1
  /\ CleanTask(2)
  /\ sup.tasks[2].run = 2
  /\ runs[2].start = <<>>
  /\ Len(TableWorld(2).log) = 1
  /\ sup.results[2][1].watermarks = <<8>>

\* The path without its first five characters, the scheme "s3://".
WithoutScheme(path) == SubSeq(path, Len(S3Scheme) + 1, Len(path))

\* C35: the path a run lists an epoch under is the entry's dataFilesPath
\* with one leading "s3://" removed and every other character kept,
\* followed by the epoch's key, whatever the bucket is called.
C35_SchemeStripped ==
  \A r \in 1..Len(runs) : \A k \in 1..Len(runs[r].listed) :
    LET path == runs[r].manifest.dataFilesPath
    IN  SubSeq(path, 1, Len(S3Scheme)) = S3Scheme
          => runs[r].listed[k].uri
               = EpochUri(WithoutScheme(path), runs[r].listed[k].key)

\* C36: a read call leaves the Manifest as it was loaded: the same tables
\* and, for each, the same top-level fields with the same values.
C36_ManifestReadOnly ==
  [][(sup.phase = "constructed" /\ sup'.phase = "constructed")
     => /\ DOMAIN sup'.manifest[1] = DOMAIN sup.manifest[1]
        /\ \A k \in DOMAIN sup.manifest[1] :
             /\ DOMAIN sup'.manifest[1][k][1] = DOMAIN sup.manifest[1][k][1]
             /\ \A f \in DOMAIN sup.manifest[1][k][1] :
                  sup'.manifest[1][k][1][f] = sup.manifest[1][k][1][f]]_vars

\* The whole document was loaded, "u" was read and its entry came back
\* with the name added, and the Manifest still holds "u" without it.
C36_Witness ==
  /\ sup.phase = "constructed"
  /\ sup.given = <<>>
  /\ sup.read # <<>>
  /\ sup.read[1].entry = "u"
  /\ sup.read[1].value # <<>>
  /\ sup.read[1].value[1].entry = "u"
  /\ "entry" \notin DOMAIN sup.manifest[1]["u"][1]

\* The partitions run r should register: <<epoch timestamp, partition>>
\* for every selected epoch and every numeric partition of it above the
\* watermark the run started from.
Due(r) ==
  LET entry == runs[r].manifest
  IN  UNION {{<<ParseInt(entry.schemaHistory[i][2]), ParseInt(d.base_name)>> :
                d \in {e \in PartitionsIn(runs[r].src,
                             EpochUri(SourceRoot, entry.schemaHistory[i][1])) :
                         ParseInt(e.base_name) > runs[r].low_watermark}} :
             i \in {j \in 1..Len(entry.schemaHistory) :
                      ParseInt(entry.schemaHistory[j][2])
                        >= runs[r].low_schema_timestamp}}

\* C37: a run that was not skipped and returned a Result without errors
\* has committed every numeric partition above its start watermark of
\* every selected epoch.
C37_CleanRunComplete ==
  \A r \in 1..Len(runs) :
    (Returned(r) /\ EntersLoop(r) /\ r = Len(runs) /\ result.errors = <<>>)
      => \A p \in Due(r) :
           \E k \in 1..Len(runs[r].commits) :
             <<SchemaTimestampOf(runs[r].commits[k]),
               WatermarkOf(runs[r].commits[k])>> = p

\* C38: over the runs on one table, none with reset, a partition is not
\* committed twice, unless an overwrite commit of a later epoch lies
\* between the two commits.
C38_AtMostOnce ==
  \A i, j \in ByProcessor :
    (i < j /\ PartitionOf(log[i]) = PartitionOf(log[j]))
      => \E k \in (i + 1)..(j - 1) :
           /\ log[k].mode = "overwrite"
           /\ SchemaTimestampOf(log[k]) > SchemaTimestampOf(log[i])

\* The timestamp directory of partition p (<<epoch timestamp, name>>) of
\* the epoch listed under uri holds no file whose name ends in .parquet.
NoParquetIn(uri, name) ==
  \A d \in src :
    (d.dir = uri /\ d.base_name = name)
      => \A i \in 1..Len(d.files) : d.files[i].ext # "parquet"

\* C39: a commit never registers a partition without parquet files, and
\* when the partition loop reaches such a partition and lists it, the run
\* ends there: nothing is committed, the Result carries an error, as first
\* partition of the epoch as well as later.
C39_NoParquetAborts ==
  /\ [](\A i \in ByProcessor :
          /\ log[i].actions # <<>>
          /\ \A d \in src :
               (d.base_name = log[i].meta.watermark)
                 => \E k \in 1..Len(d.files) : d.files[k].ext = "parquet")
  /\ [][(pc = "folders" /\ batch.folders # <<>>
           /\ NoParquetIn(Item.uri, Head(batch.folders))
           /\ runs'[Run].skipped = runs[Run].skipped)
        => /\ log' = log
           /\ pc' = "done"
           /\ result'.process_finish_time
           /\ Len(result'.errors) > Len(result.errors)]_vars

\* A run committed the first partition and was abandoned at the second,
\* which holds a file that is not a parquet file.
C39_Witness ==
  /\ Done
  /\ runs[Run].commits # <<>>
  /\ Len(log) = 1
  /\ batch.folders # <<>>
  /\ ~batch.first_folder_for_schema
  /\ \E d \in src : d.base_name = Head(batch.folders) /\ d.files = OtherFiles
  /\ result.errors # <<>>

====
